---- MODULE Spec2Model ----
(***************************************************************************)
(* A model of the RMT Compose evaluation core (rust/src):                   *)
(*   graph.rs      DependencyGraph  (forward / inverse index, Kahn order)   *)
(*   bytecode.rs   opcode and variable tables, big-endian readers           *)
(*   evaluator.rs  stack VM, FractionData, PersistentEvaluator              *)
(*   fraction.rs   Fraction (canonical rationals)                           *)
(* Collections of the program are TLA+ functions and sets: a HashMap is a   *)
(* function whose DOMAIN is the set of its keys, a HashSet is a set, a Vec  *)
(* is a sequence.                                                           *)
(***************************************************************************)
EXTENDS Integers, Sequences, FiniteSets, TLC

VARIABLES
    dependencies,          \* DependencyGraph.dependencies : id -> set of ids
    dependents,            \* DependencyGraph.dependents   : id -> set of ids
    base_note_dependents,  \* DependencyGraph.base_note_dependents
    cache,                 \* PersistentEvaluator.cache : id -> EvaluatedNote
    bytecode_store,        \* PersistentEvaluator.bytecode_store : id -> NoteBytecode
    dirty,                 \* PersistentEvaluator.dirty
    generation,            \* PersistentEvaluator.generation
    last_call,             \* history: the last call made, its arguments and result
    nops                   \* number of calls made so far

GraphVars == <<dependencies, dependents, base_note_dependents>>

EvalVars == <<cache, bytecode_store, dirty, generation>>

vars == <<dependencies, dependents, base_note_dependents,
          cache, bytecode_store, dirty, generation, last_call, nops>>

(***************************************************************************)
(* Bounds                                                                   *)
(***************************************************************************)
MaxNoteId == 2

NoteIds == 0..MaxNoteId

\* longest note list handed to syncFromJs
MaxSyncNotes == 2

\* how far the declared length of a VM input may exceed its buffer
MaxOverrun == 1

SeqsUpTo(S, n) == UNION {[1..k -> S] : k \in 0..n}

(***************************************************************************)
(* HashMap helpers                                                          *)
(***************************************************************************)
MapGet(m, k) == IF k \in DOMAIN m THEN m[k] ELSE {}

MapInsert(m, k, v) == [x \in (DOMAIN m) \cup {k} |-> IF x = k THEN v ELSE m[x]]

MapRemove(m, k) == [x \in (DOMAIN m) \ {k} |-> m[x]]

EmptyMap == [x \in {} |-> {}]

(***************************************************************************)
(* graph.rs : DependencyGraph                                               *)
(***************************************************************************)
Graph(fwd, inv, base) ==
    [dependencies |-> fwd, dependents |-> inv, base_note_dependents |-> base]

new_graph == Graph(EmptyMap, EmptyMap, {})

\* The first loop of update_dependencies and of remove_note: note_id leaves the
\* dependent set of every key in `keys`; a set left empty loses its key.
RemoveFromInverse(inv, keys, note_id) ==
    LET touched == keys \cap DOMAIN inv
        gone    == {k \in touched : inv[k] \ {note_id} = {}}
    IN  [k \in (DOMAIN inv) \ gone |->
            IF k \in touched THEN inv[k] \ {note_id} ELSE inv[k]]

\* The second loop of update_dependencies: entry(new_dep).or_insert_with(new).insert(note_id)
AddToInverse(inv, keys, note_id) ==
    [k \in (DOMAIN inv) \cup keys |->
        IF k \in keys THEN MapGet(inv, k) \cup {note_id} ELSE inv[k]]

\* update_dependencies without its first loop: dropped dependencies keep
\* note_id in their dependent sets
update_dependencies_keeps_dropped(g, note_id, new_deps, references_base) ==
    LET old_deps == MapGet(g.dependencies, note_id)
        inv2 == AddToInverse(g.dependents, new_deps \ old_deps, note_id)
    IN  Graph(MapInsert(g.dependencies, note_id, new_deps),
              inv2,
              IF references_base
                  THEN g.base_note_dependents \cup {note_id}
                  ELSE g.base_note_dependents \ {note_id})

update_dependencies(g, note_id, new_deps, references_base) ==
    LET old_deps == MapGet(g.dependencies, note_id)
        inv1 == RemoveFromInverse(g.dependents, old_deps \ new_deps, note_id)
        inv2 == AddToInverse(inv1, new_deps \ old_deps, note_id)
    IN  Graph(MapInsert(g.dependencies, note_id, new_deps),
              inv2,
              IF references_base
                  THEN g.base_note_dependents \cup {note_id}
                  ELSE g.base_note_dependents \ {note_id})

\* a removal that leaves the entries of the notes depending on note_id alone
remove_note_forward_only(g, note_id) ==
    LET had  == note_id \in DOMAIN g.dependencies
        deps == MapGet(g.dependencies, note_id)
        inv1 == IF had THEN RemoveFromInverse(g.dependents, deps, note_id)
                       ELSE g.dependents
    IN  Graph(MapRemove(g.dependencies, note_id), MapRemove(inv1, note_id),
              g.base_note_dependents \ {note_id})

remove_note(g, note_id) ==
    LET had  == note_id \in DOMAIN g.dependencies
        deps == MapGet(g.dependencies, note_id)
        fwd1 == MapRemove(g.dependencies, note_id)
        inv1 == IF had THEN RemoveFromInverse(g.dependents, deps, note_id)
                       ELSE g.dependents
        dependents_of_this == MapGet(inv1, note_id)
        inv2 == MapRemove(inv1, note_id)
        fwd2 == [k \in DOMAIN fwd1 |->
                    IF k \in dependents_of_this THEN fwd1[k] \ {note_id} ELSE fwd1[k]]
    IN  Graph(fwd2, inv2, g.base_note_dependents \ {note_id})

get_dependencies(g, note_id) == MapGet(g.dependencies, note_id)

get_dependents(g, note_id) == MapGet(g.dependents, note_id)

\* Vec::sort of a set of ids: ascending
RECURSIVE SortedSeq(_)
SortedSeq(S) ==
    IF S = {} THEN <<>>
    ELSE LET m == CHOOSE x \in S : \A y \in S : x <= y
         IN  <<m>> \o SortedSeq(S \ {m})

SaturatingSub(a, b) == IF a >= b THEN a - b ELSE 0

\* in-degrees that also count dependencies outside note_ids
InDegree_counts_outside(g, note_ids) ==
    [id \in note_ids |-> Cardinality(MapGet(g.dependencies, id))]

InDegree(g, note_ids) ==
    [id \in note_ids |-> Cardinality(MapGet(g.dependencies, id) \cap note_ids)]

\* The `while let Some(id) = queue.pop()` loop of get_evaluation_order:
\* Vec::pop takes the LAST element of the queue.
RECURSIVE KahnLoop(_, _, _, _)
KahnLoop(g, queue, in_degree, result) ==
    IF queue = <<>> THEN result
    ELSE LET id      == queue[Len(queue)]
             rest    == SubSeq(queue, 1, Len(queue) - 1)
             touched == MapGet(g.dependents, id) \cap DOMAIN in_degree
             deg2    == [d \in DOMAIN in_degree |->
                            IF d \in touched THEN SaturatingSub(in_degree[d], 1)
                                             ELSE in_degree[d]]
             new_zero_degree == {d \in touched : deg2[d] = 0}
         IN  KahnLoop(g, rest \o SortedSeq(new_zero_degree), deg2, Append(result, id))

get_evaluation_order(g, note_ids) ==
    LET in_degree == InDegree(g, note_ids)
        queue     == SortedSeq({id \in note_ids : in_degree[id] = 0})
    IN  KahnLoop(g, queue, in_degree, <<>>)

\* The BFS of get_all_dependents: `visited` starts as {note_id}; every id
\* reached over `dependents` and not yet visited joins the result.
\* The elements of a HashSet / the keys of a HashMap in the order one run
\* iterates them: the order is not specified by the container, so it is an
\* input, a sequence `iter` listing every id once.
Iterate(S, iter) == SelectSeq(iter, LAMBDA x : x \in S)

\* Vec::sort of a vector of ids
RECURSIVE InsertSorted(_, _)
InsertSorted(v, x) ==
    IF v = <<>> THEN <<x>>
    ELSE IF x < Head(v) THEN <<x>> \o v
    ELSE <<Head(v)>> \o InsertSorted(Tail(v), x)

RECURSIVE sort(_)
sort(v) == IF v = <<>> THEN <<>> ELSE InsertSorted(sort(Tail(v)), Head(v))

\* a loop that leaves new_zero_degree in the order the set was iterated
RECURSIVE KahnLoopIn_unsorted(_, _, _, _, _)
KahnLoopIn_unsorted(g, queue, in_degree, result, set_iter) ==
    IF queue = <<>> THEN result
    ELSE LET id      == queue[Len(queue)]
             rest    == SubSeq(queue, 1, Len(queue) - 1)
             touched == MapGet(g.dependents, id) \cap DOMAIN in_degree
             deg2    == [d \in DOMAIN in_degree |->
                            IF d \in touched THEN SaturatingSub(in_degree[d], 1)
                                             ELSE in_degree[d]]
             new_zero_degree == SelectSeq(Iterate(touched, set_iter), LAMBDA d : deg2[d] = 0)
         IN  KahnLoopIn_unsorted(g, rest \o new_zero_degree, deg2, Append(result, id), set_iter)

\* a loop that queues every dependent it touches, whatever its degree
RECURSIVE KahnLoopIn_ignores_degree(_, _, _, _, _)
KahnLoopIn_ignores_degree(g, queue, in_degree, result, set_iter) ==
    IF queue = <<>> \/ Len(result) > Cardinality(DOMAIN in_degree) THEN result
    ELSE LET id      == queue[Len(queue)]
             rest    == SubSeq(queue, 1, Len(queue) - 1)
             touched == MapGet(g.dependents, id) \cap DOMAIN in_degree
             deg2    == [d \in DOMAIN in_degree |->
                            IF d \in touched THEN SaturatingSub(in_degree[d], 1)
                                             ELSE in_degree[d]]
             new_zero_degree == Iterate(touched, set_iter)
         IN  KahnLoopIn_ignores_degree(g, rest \o sort(new_zero_degree), deg2,
                                       Append(result, id), set_iter)

\* The loop of get_evaluation_order with its iteration made explicit:
\* `for dep in dependents` visits the set in the order set_iter, the notes
\* that reach degree zero are collected in that order and then sorted.
RECURSIVE KahnLoopIn(_, _, _, _, _)
KahnLoopIn(g, queue, in_degree, result, set_iter) ==
    IF queue = <<>> THEN result
    ELSE LET id      == queue[Len(queue)]
             rest    == SubSeq(queue, 1, Len(queue) - 1)
             touched == MapGet(g.dependents, id) \cap DOMAIN in_degree
             deg2    == [d \in DOMAIN in_degree |->
                            IF d \in touched THEN SaturatingSub(in_degree[d], 1)
                                             ELSE in_degree[d]]
             new_zero_degree == SelectSeq(Iterate(touched, set_iter), LAMBDA d : deg2[d] = 0)
         IN  KahnLoopIn(g, rest \o sort(new_zero_degree), deg2, Append(result, id), set_iter)

\* get_evaluation_order when in_degree.iter() runs in the order map_iter and
\* every dependents set in the order set_iter
get_evaluation_order_in(g, note_ids, map_iter, set_iter) ==
    LET in_degree == InDegree(g, note_ids)
        queue == SelectSeq(Iterate(note_ids, map_iter), LAMBDA id : in_degree[id] = 0)
    IN  KahnLoopIn(g, sort(queue), in_degree, <<>>, set_iter)

RECURSIVE DependentsBfs(_, _, _)
DependentsBfs(g, frontier, visited) ==
    LET found == (UNION {MapGet(g.dependents, c) : c \in frontier}) \ visited
    IN  IF found = {} THEN visited
        ELSE DependentsBfs(g, found, visited \cup found)

\* the direct dependents only
get_all_dependents_one_level(g, note_id) == MapGet(g.dependents, note_id) \ {note_id}

get_all_dependents(g, note_id) == DependentsBfs(g, {note_id}, {note_id}) \ {note_id}

\* get_all_dependencies: the same BFS over self.dependencies
RECURSIVE DependenciesBfs(_, _, _)
DependenciesBfs(g, frontier, visited) ==
    LET found == (UNION {MapGet(g.dependencies, c) : c \in frontier}) \ visited
    IN  IF found = {} THEN visited
        ELSE DependenciesBfs(g, found, visited \cup found)

get_all_dependencies(g, note_id) == DependenciesBfs(g, {note_id}, {note_id}) \ {note_id}

\* a search that answers whether target was visited, the source included
RECURSIVE PathBfs_answers_visited(_, _, _, _, _)
PathBfs_answers_visited(g, queue, visited, target, set_iter) ==
    IF queue = <<>> THEN target \in visited
    ELSE LET deps  == MapGet(g.dependencies, Head(queue))
             fresh == Iterate(deps \ visited, set_iter)
         IN  PathBfs_answers_visited(g, Tail(queue) \o fresh, visited \cup deps,
                                     target, set_iter)

\* The `while let Some(current) = queue.pop_front()` loop of
\* has_dependency_path: true as soon as the dependencies of a visited note
\* hold the target; `for dep in deps` runs in the order set_iter.
RECURSIVE PathBfs(_, _, _, _, _)
PathBfs(g, queue, visited, target, set_iter) ==
    IF queue = <<>> THEN FALSE
    ELSE LET deps  == MapGet(g.dependencies, Head(queue))
             fresh == Iterate(deps \ visited, set_iter)
         IN  IF target \in deps THEN TRUE
             ELSE PathBfs(g, Tail(queue) \o fresh, visited \cup deps, target, set_iter)

has_dependency_path(g, source, target, set_iter) ==
    PathBfs(g, <<source>>, {source}, target, set_iter)


\* path.iter().position(|&x| x == dep)
Position(path, dep) == CHOOSE i \in 1..Len(path) : path[i] = dep /\ \A j \in 1..(i - 1) : path[j] # dep

\* `cycle = path[cycle_start..].to_vec(); cycle.push(dep); cycles.push(cycle)`
FoundCycle(st, dep) ==
    IF \E i \in 1..Len(st.path) : st.path[i] = dep
    THEN [st EXCEPT !.cycles = Append(@, SubSeq(st.path, Position(st.path, dep), Len(st.path))
                                         \o <<dep>>)]
    ELSE st

\* a dfs that reports a cycle at every dependency already visited
DfsVisit_reports_visited(g, note_id, dep, st, deps_iter) ==
    FoundCycle(st, dep)

\* the fn dfs inside detect_cycles; st = [visited, recursion_stack, path, cycles]
RECURSIVE Dfs(_, _, _, _)
RECURSIVE DfsDeps(_, _, _, _, _)
\* one turn of `for dep in deps`
DfsVisit(g, note_id, dep, st, deps_iter) ==
    IF dep \notin st.visited THEN Dfs(g, dep, st, deps_iter)
    ELSE IF dep \in st.recursion_stack THEN FoundCycle(st, dep)
    ELSE st

DfsDeps(g, note_id, deps, st, deps_iter) ==
    IF deps = <<>> THEN st
    ELSE CHOOSE out \in
            {DfsDeps(g, note_id, Tail(deps), s1, deps_iter) :
                s1 \in {DfsVisit(g, note_id, Head(deps), st, deps_iter)}} : TRUE

Dfs(g, note_id, st, deps_iter) ==
    CHOOSE out \in
        {[s2 EXCEPT !.path = SubSeq(@, 1, Len(@) - 1),
                    !.recursion_stack = @ \ {note_id}] :
            s2 \in {DfsDeps(g, note_id,
                            IF note_id \in DOMAIN g.dependencies
                               THEN Iterate(g.dependencies[note_id], deps_iter) ELSE <<>>,
                            [st EXCEPT !.visited = @ \cup {note_id},
                                       !.recursion_stack = @ \cup {note_id},
                                       !.path = Append(@, note_id)],
                            deps_iter)}} : TRUE

\* `for note_id in self.dependencies.keys()`
RECURSIVE DetectFrom(_, _, _, _)
DetectFrom(g, keys, st, deps_iter) ==
    IF keys = <<>> THEN st
    ELSE CHOOSE out \in
            {DetectFrom(g, Tail(keys), s1, deps_iter) :
                s1 \in {IF Head(keys) \notin st.visited
                           THEN Dfs(g, Head(keys), st, deps_iter) ELSE st}} : TRUE

\* detect_cycles under the iteration orders keys_iter (of dependencies.keys())
\* and deps_iter (of each dependency set)
detect_cycles(g, keys_iter, deps_iter) ==
    DetectFrom(g, Iterate(DOMAIN g.dependencies, keys_iter),
               [visited |-> {}, recursion_stack |-> {}, path |-> <<>>, cycles |-> <<>>],
               deps_iter).cycles

get_base_note_dependents(g) == g.base_note_dependents

\* sync_from_js: clear(), then update_dependencies for each note of the list
RECURSIVE SyncNotes(_, _)
SyncNotes(g, notes) ==
    IF notes = <<>> THEN g
    ELSE SyncNotes(update_dependencies(g, Head(notes).id, Head(notes).deps,
                                       Head(notes).references_base),
                   Tail(notes))

sync_from_js(notes) == SyncNotes(new_graph, notes)

(***************************************************************************)
(* fraction.rs : Fraction, a BigRational kept in lowest terms with a        *)
(* positive denominator.  A Fraction is the record [num, den].              *)
(***************************************************************************)
Abs(x) == IF x < 0 THEN -x ELSE x

RECURSIVE Gcd(_, _)
Gcd(a, b) == IF b = 0 THEN a ELSE Gcd(b, a % b)

\* BigRational::new without the reduction
Ratio_unreduced(num, den) == [num |-> num, den |-> den]

\* BigRational::new(num, den), den # 0: reduce and make the denominator positive
Ratio(num, den) ==
    LET g == Gcd(Abs(num), Abs(den))
        sgn == IF den < 0 THEN -1 ELSE 1
    IN  [num |-> sgn * (num \div g), den |-> Abs(den) \div g]

\* Fraction::new(num: i32, den: i32)
FractionNew(num, den) == IF den = 0 THEN [num |-> 0, den |-> 1] ELSE Ratio(num, den)

FractionIsZero(a) == a.num = 0

FractionAdd(a, b) == Ratio(a.num * b.den + b.num * a.den, a.den * b.den)

FractionSub(a, b) == Ratio(a.num * b.den - b.num * a.den, a.den * b.den)

FractionMul(a, b) == Ratio(a.num * b.num, a.den * b.den)

FractionDiv(a, b) ==
    IF FractionIsZero(b) THEN [num |-> 1, den |-> 1]
    ELSE Ratio(a.num * b.den, a.den * b.num)

\* impl Div for Fraction, the `/` operator: `self.inner / rhs.inner` with no
\* test for zero; BigRational division by zero panics
FractionDivOperator(a, b) ==
    IF FractionIsZero(b) THEN [panic |-> TRUE]
    ELSE [panic |-> FALSE, value |-> Ratio(a.num * b.den, a.den * b.num)]

FractionNeg(a) == [num |-> -a.num, den |-> a.den]

FractionInverse(a) ==
    IF FractionIsZero(a) THEN [num |-> 1, den |-> 1] ELSE Ratio(a.den, a.num)

\* A Fraction with a numerator or denominator of 32 bits or more keeps the sign
\* and both magnitudes; this model builds one from a pair in lowest terms only
\* (a numerator or denominator of magnitude 1).
Magnitude(b) == IF b.wide THEN [wide |-> TRUE, mag |-> b.mag] ELSE [wide |-> FALSE, int |-> Abs(b.int)]

WideFraction(num, den) ==
    [wide |-> TRUE,
     s |-> IF num.wide THEN num.sign ELSE IF num.int < 0 THEN -1 ELSE 1,
     n |-> Magnitude(num), d |-> Magnitude(den)]

IsWide(frac) == "wide" \in DOMAIN frac

\* Fraction::s / n / d : sign, absolute numerator, denominator
FractionS(a) == IF a.num = 0 THEN 0 ELSE IF a.num > 0 THEN 1 ELSE -1

FractionN(a) == Abs(a.num)

FractionD(a) == a.den

(***************************************************************************)
(* An f64 is modelled by the real number it approximates when that number   *)
(* is rational: [known |-> TRUE, num, den]; an f64 that approximates an     *)
(* irrational real is [known |-> FALSE].  Rounding error is not modelled.   *)
(***************************************************************************)
F64(num, den) == [known |-> TRUE, num |-> Ratio(num, den).num, den |-> Ratio(num, den).den]

F64Unknown == [known |-> FALSE]

F64Zero == F64(0, 1)

F64OfFraction(a) == [known |-> TRUE, num |-> a.num, den |-> a.den]

F64Bin(op(_, _), x, y) ==
    IF x.known /\ y.known
    THEN F64OfFraction(op([num |-> x.num, den |-> x.den], [num |-> y.num, den |-> y.den]))
    ELSE F64Unknown

F64IsZero(x) == x.known /\ x.num = 0

\* f64::round (half away from zero) followed by `as u32` (negative saturates to 0)
F64RoundAsU32(x) ==
    IF ~x.known THEN 0
    ELSE IF x.num <= 0 THEN 0
    ELSE (2 * x.num + x.den) \div (2 * x.den)

(***************************************************************************)
(* value.rs : Value = Rational(Fraction) | Irrational(f64) | Symbolic       *)
(***************************************************************************)
Rational(a) == [kind |-> "Rational", frac |-> a]

Irrational(x) == [kind |-> "Irrational", f |-> x]

Symbolic(coefficient, powers) ==
    [kind |-> "Symbolic", coefficient |-> coefficient, powers |-> powers]

ValueRational(num, den) == Rational(FractionNew(num, den))

is_corrupted(v) == v.kind \in {"Irrational", "Symbolic"}

\* SymbolicPower::is_rational
SymIsRational(powers) == \A i \in 1..Len(powers) : FractionD(powers[i].exponent) = 1

ValueToF64(v) ==
    CASE v.kind = "Rational"   -> F64OfFraction(v.frac)
      [] v.kind = "Irrational" -> v.f
      [] v.kind = "Symbolic"   ->
            \* coefficient.to_f64() times each base.powf(exponent): a zero
            \* coefficient gives 0.0, another one a float this model cannot name
            IF v.powers = <<>> THEN F64OfFraction(v.coefficient)
            ELSE IF v.coefficient.num = 0 THEN F64Zero
            ELSE F64Unknown

\* ---- SymbolicPower: coefficient * base1^exp1 * ... ; powers is a Vec of
\* [base, exponent] terms.
One == [num |-> 1, den |-> 1]

\* The HashMap<u32, Fraction> built from a Vec of terms by insert: a later
\* term of the same base overwrites an earlier one.
RECURSIVE PowerMap(_, _)
PowerMap(powers, m) ==
    IF powers = <<>> THEN m
    ELSE PowerMap(Tail(powers), MapInsert(m, Head(powers).base, Head(powers).exponent))

\* Merge the terms of `powers` into the map: mul adds the exponent of a base
\* already present and inserts a new one; div subtracts, and inserts the negation.
RECURSIVE MergePowers(_, _, _)
MergePowers(m, powers, is_div) ==
    IF powers = <<>> THEN m
    ELSE LET p == Head(powers)
             e == IF p.base \in DOMAIN m
                     THEN (IF is_div THEN FractionSub(m[p.base], p.exponent)
                                     ELSE FractionAdd(m[p.base], p.exponent))
                     ELSE (IF is_div THEN FractionNeg(p.exponent) ELSE p.exponent)
         IN  MergePowers(MapInsert(m, p.base, e), Tail(powers), is_div)

\* filter(exp.n() != 0), collect, then normalize(): retain non-zero, sort by base
RECURSIVE TermsByBase(_, _)
TermsByBase(m, bases) ==
    IF bases = <<>> THEN <<>>
    ELSE <<[base |-> Head(bases), exponent |-> m[Head(bases)]]>> \o TermsByBase(m, Tail(bases))

\* HashMap::into_iter yields the entries in an unspecified order: the terms
\* come out by descending base here, and normalize() has to sort them
RECURSIVE ReverseSeq(_)
ReverseSeq(s) == IF s = <<>> THEN <<>> ELSE ReverseSeq(Tail(s)) \o <<Head(s)>>

MapToPowers(m) ==
    TermsByBase(m, ReverseSeq(SortedSeq({b \in DOMAIN m : FractionN(m[b]) # 0})))

\* stable insertion of a term into a Vec sorted by base (sort_by_key is stable)
RECURSIVE InsertByBase(_, _)
InsertByBase(sorted, p) ==
    IF sorted = <<>> THEN <<p>>
    ELSE IF Head(sorted).base <= p.base THEN <<Head(sorted)>> \o InsertByBase(Tail(sorted), p)
    ELSE <<p>> \o sorted

RECURSIVE SortByBase(_, _)
SortByBase(powers, acc) ==
    IF powers = <<>> THEN acc
    ELSE SortByBase(Tail(powers), InsertByBase(acc, Head(powers)))

\* a normalize() that drops the zero exponents and leaves the order alone
SymNormalize_unsorted(coefficient, powers) ==
    Symbolic(coefficient, SelectSeq(powers, LAMBDA p : FractionN(p.exponent) # 0))

SymNormalize(coefficient, powers) ==
    Symbolic(coefficient,
             SortByBase(SelectSeq(powers, LAMBDA p : FractionN(p.exponent) # 0), <<>>))

SymMul(a, b) ==
    SymNormalize(FractionMul(a.coefficient, b.coefficient),
                 MapToPowers(MergePowers(PowerMap(a.powers, EmptyMap), b.powers, FALSE)))

SymDiv(a, b) ==
    SymNormalize(FractionDiv(a.coefficient, b.coefficient),
                 MapToPowers(MergePowers(PowerMap(a.powers, EmptyMap), b.powers, TRUE)))

SymMulRational(a, frac) == Symbolic(FractionMul(a.coefficient, frac), a.powers)

RECURSIVE IntPow(_, _)
IntPow(b, e) == IF e = 0 THEN 1 ELSE b * IntPow(b, e - 1)

\* the low 16 bits of p * q for 16-bit p and q
MulLow16(p, q) == (p * (q % 256) + ((p * (q \div 256)) % 256) * 256) % 65536

\* the low 32 bits of the product of two 32-bit numbers given as 16-bit
\* halves <<high, low>>
wrapping_mul(x, y) ==
    LET a == x[2] * (y[2] % 256)
        b == x[2] * (y[2] \div 256)
        low == a + (b % 256) * 256
        carry == low \div 65536 + b \div 256
    IN  <<(carry + MulLow16(x[1], y[2]) + MulLow16(x[2], y[1])) % 65536, low % 65536>>

\* (p.base as i64).pow(e) as i32: the low 32 bits of base^e, as the two 16-bit
\* halves <<high, low>> (a base of 15 bits at most, a power below 2^63)
RECURSIVE wrapping_pow(_, _)
wrapping_pow(base, e) ==
    IF e = 0 THEN <<0, 1>>
    ELSE LET half == wrapping_pow(base, e \div 2)
             square == wrapping_mul(half, half)
         IN  IF e % 2 = 1 THEN wrapping_mul(square, <<0, base>>) ELSE square

\* the 32 bits read as a two's complement i32
as_i32(x) == IF x[1] >= 32768 THEN (x[1] - 65536) * 65536 + x[2] ELSE x[1] * 65536 + x[2]

pow_as_i32(base, e) == IF base < 32768 THEN as_i32(wrapping_pow(base, e)) ELSE IntPow(base, e)

\* SymbolicPower::to_rational_fraction (all exponents have denominator 1)
RECURSIVE SymFold(_, _)
SymFold(result, powers) ==
    IF powers = <<>> THEN result
    ELSE LET p == Head(powers)
             int_exp == FractionS(p.exponent) * FractionN(p.exponent)
             base_pow == pow_as_i32(p.base, Abs(int_exp))
         IN  SymFold(IF int_exp >= 0
                        THEN FractionMul(result, FractionNew(base_pow, 1))
                        ELSE FractionDiv(result, FractionNew(base_pow, 1)),
                     Tail(powers))

\* `if result.is_rational() { return Rational(to_rational_fraction) } Symbolic(result)`
SymToValue(sp) ==
    IF SymIsRational(sp.powers) THEN Rational(SymFold(sp.coefficient, sp.powers)) ELSE sp

\* ---- rational powers (try_rational_power and its helpers)
RECURSIVE SquaringLoop(_, _, _)
SquaringLoop(result, current, remaining) ==
    IF remaining = 0 THEN result
    ELSE SquaringLoop(IF remaining % 2 = 1 THEN FractionMul(result, current) ELSE result,
                      \* the square after the last bit is never read
                      IF remaining \div 2 = 0 THEN current ELSE FractionMul(current, current),
                      remaining \div 2)

\* base^n by repeated squaring; a negative n gives the reciprocal
rational_int_power(base, n) ==
    IF n = 0 THEN One
    ELSE IF n < 0 THEN FractionInverse(SquaringLoop(One, base, -n))
    ELSE SquaringLoop(One, base, n)

\* candidate.checked_pow(n) as far as the comparison with `value` needs it:
\* a power beyond `value` (an overflow included) is reported as value + 1
RECURSIVE checked_pow(_, _, _)
checked_pow(c, n, value) ==
    IF n = 0 THEN 1
    ELSE LET r == checked_pow(c, n - 1, value)
         IN  IF r > value \div c THEN value + 1 ELSE r * c

\* integer_nth_root taking the square root whatever n is
integer_nth_root_square(value, n) ==
    IF value = 0 THEN 0
    ELSE IF value = 1 \/ n = 1 THEN value
    ELSE LET roots == {c \in 1..value : checked_pow(c, 2, value) = value}
         IN  IF roots = {} THEN -1 ELSE CHOOSE c \in roots : TRUE

\* integer_nth_root: the exact n-th root of value, or -1 (None)
integer_nth_root(value, n) ==
    IF value = 0 THEN 0
    ELSE IF value = 1 \/ n = 1 THEN value
    ELSE LET roots == {c \in 1..value : checked_pow(c, n, value) = value}
         IN  IF roots = {} THEN -1 ELSE CHOOSE c \in roots : TRUE

\* try_perfect_nth_root: [some |-> TRUE, frac] or [some |-> FALSE]
try_perfect_nth_root(value, n) ==
    IF n = 0 THEN [some |-> FALSE]
    ELSE IF n = 1 THEN [some |-> TRUE, frac |-> value]
    ELSE LET num_root == integer_nth_root(Abs(value.num), n)
             den_root == integer_nth_root(value.den, n)
         IN  IF num_root = -1 \/ den_root = -1 THEN [some |-> FALSE]
             ELSE IF value.num < 0 /\ n % 2 = 0 THEN [some |-> FALSE]
             ELSE [some |-> TRUE,
                   frac |-> Ratio((IF value.num < 0 THEN -1 ELSE 1) * num_root, den_root)]

try_rational_power(base, exp) ==
    IF exp.num = 0 THEN [some |-> TRUE, frac |-> One]
    ELSE IF exp.den = 1 THEN [some |-> TRUE, frac |-> rational_int_power(base, exp.num)]
    ELSE try_perfect_nth_root(rational_int_power(base, exp.num), exp.den)

SymPow(sp, exponent) ==
    LET r == try_rational_power(sp.coefficient, exponent)
        new_powers == [i \in 1..Len(sp.powers) |->
                          [base |-> sp.powers[i].base,
                           exponent |-> FractionMul(sp.powers[i].exponent, exponent)]]
    IN  \* a coefficient whose power is irrational is replaced by from_f64 of an
        \* f64 power: not a rational this model can name, the coefficient is kept
        SymNormalize(IF r.some THEN r.frac ELSE sp.coefficient, new_powers)

\* ---- Value arithmetic
F64Neg(x) == IF x.known THEN F64(-x.num, x.den) ELSE F64Unknown

\* f64::powf: a rational result is kept when the model can name it
F64Pow(x, y) ==
    IF x.known /\ y.known
    THEN LET r == try_rational_power([num |-> x.num, den |-> x.den],
                                     [num |-> y.num, den |-> y.den])
         IN  IF r.some /\ ~(x.num = 0 /\ y.num < 0) THEN F64OfFraction(r.frac) ELSE F64Unknown
    ELSE F64Unknown

ValueAdd(a, b) ==
    IF a.kind = "Rational" /\ b.kind = "Rational"
    THEN Rational(FractionAdd(a.frac, b.frac))
    ELSE Irrational(F64Bin(FractionAdd, ValueToF64(a), ValueToF64(b)))

ValueSub(a, b) ==
    IF a.kind = "Rational" /\ b.kind = "Rational"
    THEN Rational(FractionSub(a.frac, b.frac))
    ELSE Irrational(F64Bin(FractionSub, ValueToF64(a), ValueToF64(b)))

\* a product that leaves the symbolic form whenever a Rational is involved
ValueMul_mixed_to_f64(a, b) ==
    CASE a.kind = "Rational" /\ b.kind = "Rational" -> Rational(FractionMul(a.frac, b.frac))
      [] a.kind = "Symbolic" /\ b.kind = "Symbolic" -> SymToValue(SymMul(a, b))
      [] OTHER -> Irrational(F64Bin(FractionMul, ValueToF64(a), ValueToF64(b)))

ValueMul(a, b) ==
    CASE a.kind = "Rational" /\ b.kind = "Rational" -> Rational(FractionMul(a.frac, b.frac))
      [] a.kind = "Symbolic" /\ b.kind = "Symbolic" -> SymToValue(SymMul(a, b))
      [] a.kind = "Symbolic" /\ b.kind = "Rational" -> SymToValue(SymMulRational(a, b.frac))
      [] a.kind = "Rational" /\ b.kind = "Symbolic" -> SymToValue(SymMulRational(b, a.frac))
      [] OTHER -> Irrational(F64Bin(FractionMul, ValueToF64(a), ValueToF64(b)))

ValueDiv(a, b) ==
    CASE a.kind = "Rational" /\ b.kind = "Rational" -> Rational(FractionDiv(a.frac, b.frac))
      [] a.kind = "Symbolic" /\ b.kind = "Symbolic" -> SymToValue(SymDiv(a, b))
      [] a.kind = "Symbolic" /\ b.kind = "Rational" ->
            SymToValue(SymMulRational(a, FractionInverse(b.frac)))
      [] a.kind = "Rational" /\ b.kind = "Symbolic" ->
            SymToValue(SymDiv(Symbolic(a.frac, <<>>), b))
      [] OTHER ->
            IF F64IsZero(ValueToF64(b)) THEN Rational(FractionNew(1, 1))
            ELSE Irrational(F64Bin(FractionDiv, ValueToF64(a), ValueToF64(b)))

ValueNeg(a) ==
    CASE a.kind = "Rational"   -> Rational(FractionNeg(a.frac))
      [] a.kind = "Irrational" -> Irrational(F64Neg(a.f))
      [] a.kind = "Symbolic"   -> SymMulRational(a, FractionNew(-1, 1))

FractionAbs(a) == [num |-> Abs(a.num), den |-> a.den]

F64Abs(x) == IF x.known THEN F64(Abs(x.num), x.den) ELSE F64Unknown

ValueAbs(a) ==
    CASE a.kind = "Rational"   -> Rational(FractionAbs(a.frac))
      [] a.kind = "Irrational" -> Irrational(F64Abs(a.f))
      [] a.kind = "Symbolic"   ->
            IF FractionS(a.coefficient) < 0 THEN SymMulRational(a, FractionNew(-1, 1))
            ELSE a

\* the Symbolic arm wraps one.div(sp) as it is: no fold to Rational
ValueInverse(a) ==
    CASE a.kind = "Rational"   -> Rational(FractionInverse(a.frac))
      [] a.kind = "Irrational" ->
            IF F64IsZero(a.f) THEN Rational(FractionNew(1, 1))
            ELSE Irrational(F64Bin(FractionDiv, F64(1, 1), a.f))
      [] a.kind = "Symbolic"   -> SymDiv(Symbolic(FractionNew(1, 1), <<>>), a)

ValuePow(a, e) ==
    CASE a.kind = "Rational" /\ e.kind = "Rational" ->
            LET r == try_rational_power(a.frac, e.frac)
            IN  IF r.some THEN Rational(r.frac)
                ELSE IF a.frac.num > 0 /\ a.frac.den = 1
                     THEN Symbolic(One, <<[base |-> a.frac.num, exponent |-> e.frac]>>)
                     ELSE Irrational(F64Unknown)
      [] a.kind = "Symbolic" /\ e.kind = "Rational" -> SymToValue(SymPow(a, e.frac))
      [] OTHER -> Irrational(F64Pow(ValueToF64(a), ValueToF64(e)))

(***************************************************************************)
(* evaluator.rs : FractionData and EvaluatedNote                            *)
(***************************************************************************)
None == [some |-> FALSE]

Some(x) == [some |-> TRUE, v |-> x]

Micro == 1000000

\* FractionData::from_fraction (numerator and denominator below u32::MAX)
\* the Irrational arm of FractionData::from_value: (s, n, 1_000_000) approximate
\* |val|; an f64 the model cannot name leaves them 0
FromF64(x) ==
    [s |-> IF x.known THEN FractionS([num |-> x.num, den |-> x.den]) ELSE 0,
     n |-> IF x.known THEN F64RoundAsU32(F64(Abs(x.num) * Micro, x.den)) ELSE 0,
     d |-> Micro,
     f |-> Some(x), corrupted |-> TRUE]

\* Fraction::n() and d() of a magnitude: to_u32().unwrap_or(u32::MAX).  A u32 of
\* 2^31 and more is held by the i32 of the same 32 bits (n - 2^32), which is
\* what `self.n as i32` reads.
AsU32(m) ==
    IF ~m.wide THEN m.int
    ELSE IF Len(m.mag) = 4
         THEN as_i32(<<m.mag[1] * 256 + m.mag[2], m.mag[3] * 256 + m.mag[4]>>)
         ELSE -1

\* `n_val == u32::MAX && numerator_str().parse::<u64>().unwrap_or(0) > u32::MAX`:
\* more than 32 bits, and no more than the 64 bits parse::<u64> accepts
OverflowsU32(m) == m.wide /\ Len(m.mag) > 4 /\ Len(m.mag) <= 8

\* FractionData::from_fraction
from_fraction(frac) ==
    IF ~IsWide(frac)
    THEN [s |-> FractionS(frac), n |-> FractionN(frac), d |-> FractionD(frac),
          f |-> None, corrupted |-> FALSE]
    ELSE IF OverflowsU32(frac.n) \/ OverflowsU32(frac.d)
         THEN FromF64(F64Unknown)
         ELSE [s |-> frac.s, n |-> AsU32(frac.n), d |-> AsU32(frac.d),
               f |-> None, corrupted |-> FALSE]

\* FractionData::from_value; a Symbolic value is stored by its f64 like an
\* Irrational one (FractionData has no symbolic field)
from_value(v) ==
    IF v.kind = "Rational" THEN from_fraction(v.frac) ELSE FromF64(ValueToF64(v))

\* FractionData::to_value
to_value(fd) ==
    IF fd.corrupted THEN Irrational(IF fd.f.some THEN fd.f.v ELSE F64Zero)
    ELSE Rational(FractionNew(fd.s * fd.n, fd.d))

\* Var
StartTime == 0

Duration == 1

Frequency == 2

Tempo == 3

BeatsPerMeasure == 4

MeasureLength == 5

Vars == {StartTime, Duration, Frequency, Tempo, BeatsPerMeasure, MeasureLength}

\* Var::from_byte(byte) is Some exactly for these bytes
VarFromByteOk(byte) == byte \in Vars

\* EvaluatedNote::default()
DefaultNote ==
    [start_time |-> None, duration |-> None, frequency |-> None, tempo |-> None,
     beats_per_measure |-> None, measure_length |-> None, corruption_flags |-> 0]

get_var(note, var) ==
    CASE var = StartTime       -> note.start_time
      [] var = Duration        -> note.duration
      [] var = Frequency       -> note.frequency
      [] var = Tempo           -> note.tempo
      [] var = BeatsPerMeasure -> note.beats_per_measure
      [] var = MeasureLength   -> note.measure_length

set_var(note, var, value) ==
    CASE var = StartTime       -> [note EXCEPT !.start_time = Some(value)]
      [] var = Duration        -> [note EXCEPT !.duration = Some(value)]
      [] var = Frequency       -> [note EXCEPT !.frequency = Some(value)]
      [] var = Tempo           -> [note EXCEPT !.tempo = Some(value)]
      [] var = BeatsPerMeasure -> [note EXCEPT !.beats_per_measure = Some(value)]
      [] var = MeasureLength   -> [note EXCEPT !.measure_length = Some(value)]

\* value.rs corruption_flag_for_var: bit `var` of the mask
corruption_flag_for_var(var) == IntPow(2, var)

\* flags |= flag
FlagOr(flags, flag) == IF (flags \div flag) % 2 = 1 THEN flags ELSE flags + flag

\* default_value(var)
default_value(var) ==
    CASE var = StartTime       -> Rational(FractionNew(0, 1))
      [] var = Duration        -> Rational(FractionNew(1, 1))
      [] var = Frequency       -> Rational(FractionNew(440, 1))
      [] var = Tempo           -> Rational(FractionNew(60, 1))
      [] var = BeatsPerMeasure -> Rational(FractionNew(4, 1))
      [] var = MeasureLength   -> Rational(FractionNew(4, 1))

\* cache.get(&id).and_then(|note| note.get_var(var)) as an Option<FractionData>
CacheVar(eval_cache, id, var) ==
    IF id \in DOMAIN eval_cache THEN get_var(eval_cache[id], var) ELSE None

\* a.or_else(|| b)
OrElse(a, b) == IF a.some THEN a ELSE b

\* opt.map(to_value).unwrap_or(dflt)
ValueOr(opt, dflt) == IF opt.some THEN to_value(opt.v) ELSE dflt

(***************************************************************************)
(* bytecode.rs : opcodes and big-endian readers.  A buffer is a sequence of *)
(* bytes; the byte at 0-based offset i is bytecode[i + 1].                  *)
(***************************************************************************)
LoadConst == 1

LoadRef == 2

LoadBase == 3

LoadConstBig == 4

Add == 16

Sub == 17

Mul == 18

Div == 19

Neg == 20

Pow == 21

FindTempo == 32

FindMeasure == 33

FindInstrument == 34

Dup == 48

Swap == 49

Ops == {LoadConst, LoadRef, LoadBase, LoadConstBig, Add, Sub, Mul, Div, Neg, Pow,
        FindTempo, FindMeasure, FindInstrument, Dup, Swap}

\* Op::from_byte(byte) is Some exactly for these bytes
OpFromByteOk(byte) == byte \in Ops

read_u16(bytecode, offset) == bytecode[offset + 1] * 256 + bytecode[offset + 2]

\* the first byte carries the sign of the i32
read_i32(bytecode, offset) ==
    (IF bytecode[offset + 1] >= 128 THEN bytecode[offset + 1] - 256 ELSE bytecode[offset + 1])
        * 16777216
    + bytecode[offset + 2] * 65536 + bytecode[offset + 3] * 256 + bytecode[offset + 4]

write_u16(value) == <<(value \div 256) % 256, value % 256>>

\* arithmetic shifts of a two's-complement i32, each truncated to a byte
write_i32(value) ==
    <<(value \div 16777216) % 256, (value \div 65536) % 256,
      (value \div 256) % 256, value % 256>>

\* BigInt::from_bytes_be(Sign::Plus, bytes)
RECURSIVE FromBytesBe(_, _)
FromBytesBe(bytes, acc) ==
    IF bytes = <<>> THEN acc ELSE FromBytesBe(Tail(bytes), acc * 256 + Head(bytes))

\* A BigInt: an integer of fewer than 32 bits by its value, a wider one by its
\* sign and the big-endian bytes of its magnitude (no leading zero byte).
RECURSIVE StripZeros(_)
StripZeros(bytes) ==
    IF bytes # <<>> /\ Head(bytes) = 0 THEN StripZeros(Tail(bytes)) ELSE bytes

FitsInt(bytes) ==
    LET b == StripZeros(bytes) IN Len(b) < 4 \/ (Len(b) = 4 /\ b[1] < 128)

BigInt(sign, bytes) ==
    IF FitsInt(bytes) THEN [wide |-> FALSE, int |-> sign * FromBytesBe(bytes, 0)]
    ELSE [wide |-> TRUE, sign |-> sign, mag |-> StripZeros(bytes)]

BigNeg(b) == IF b.wide THEN [b EXCEPT !.sign = -b.sign] ELSE [b EXCEPT !.int = -b.int]

\* read_big_int_unsigned: Ok((value, bytes consumed)) or Err; `last` is the
\* greatest offset read (offset - 1 when nothing was read)
read_big_int_unsigned(bytecode, offset) ==
    IF offset + 2 > Len(bytecode) THEN [ok |-> FALSE, last |-> offset - 1]
    ELSE LET len == read_u16(bytecode, offset)
         IN  IF offset + 2 + len > Len(bytecode) THEN [ok |-> FALSE, last |-> offset + 1]
             ELSE [ok |-> TRUE,
                   value |-> BigInt(1, SubSeq(bytecode, offset + 3, offset + 2 + len)),
                   bytes |-> 2 + len,
                   last |-> offset + 1 + len]

read_big_int_signed(bytecode, offset) ==
    IF offset >= Len(bytecode) THEN [ok |-> FALSE, last |-> offset - 1]
    ELSE LET sign_byte == bytecode[offset + 1]
             m == read_big_int_unsigned(bytecode, offset + 1)
         IN  IF ~m.ok THEN [ok |-> FALSE, last |-> IF m.last > offset THEN m.last ELSE offset]
             ELSE [ok |-> TRUE,
                   value |-> IF sign_byte = 1 THEN BigNeg(m.value) ELSE m.value,
                   bytes |-> 1 + m.bytes,
                   last |-> m.last]

\* Fraction::from_big_ints
from_big_ints(num, den) ==
    IF ~den.wide /\ den.int = 0 THEN [num |-> 0, den |-> 1]
    ELSE IF ~num.wide /\ ~den.wide THEN Ratio(num.int, den.int)
    ELSE WideFraction(num, den)

(***************************************************************************)
(* evaluator.rs : the stack VM.  A run ends with Ok(value), with Err, or    *)
(* with a panic (an index past the end of the buffer); `hi` is the greatest *)
(* 0-based offset of the buffer read so far, -1 when none was read.         *)
(***************************************************************************)
max_stack_size == 1024

VmOk(value, hi) == [tag |-> "Ok", value |-> value, hi |-> hi]

VmErr(hi) == [tag |-> "Err", hi |-> hi, err |-> "other"]

VmPanic(hi) == [tag |-> "Panic", hi |-> hi]

Max(a, b) == IF a >= b THEN a ELSE b

\* LOAD_REF whose fallback to the base note is taken for every variable
LoadRefValue_inherits_all(eval_cache, note_id, var) ==
    ValueOr(OrElse(CacheVar(eval_cache, note_id, var), CacheVar(eval_cache, 0, var)),
            default_value(var))

\* the value LOAD_REF pushes
LoadRefValue(eval_cache, note_id, var) ==
    LET value == CacheVar(eval_cache, note_id, var)
        inherited == IF var \in {Tempo, BeatsPerMeasure, MeasureLength}
                        THEN CacheVar(eval_cache, 0, var) ELSE None
    IN  ValueOr(OrElse(value, inherited), default_value(var))

\* the value LOAD_BASE pushes
LoadBaseValue(eval_cache, var) == ValueOr(CacheVar(eval_cache, 0, var), default_value(var))

\* a FIND_TEMPO that pushes 60 whatever the base note holds
FindTempoValue_always_default(eval_cache) == ValueRational(60, 1)

\* the value FIND_TEMPO pushes
FindTempoValue(eval_cache) == ValueOr(CacheVar(eval_cache, 0, Tempo), ValueRational(60, 1))

\* the value FIND_MEASURE pushes for the popped note reference
FindMeasureValue(eval_cache, note_ref) ==
    LET note_id == F64RoundAsU32(ValueToF64(note_ref))
        beats == ValueOr(OrElse(CacheVar(eval_cache, note_id, BeatsPerMeasure),
                                CacheVar(eval_cache, 0, BeatsPerMeasure)), ValueRational(4, 1))
        tempo == ValueOr(OrElse(CacheVar(eval_cache, note_id, Tempo),
                                CacheVar(eval_cache, 0, Tempo)), ValueRational(60, 1))
    IN  ValueDiv(ValueMul(beats, ValueRational(60, 1)), tempo)

BinaryOp(op, a, b) ==
    CASE op = Add -> ValueAdd(a, b)
      [] op = Sub -> ValueSub(a, b)
      [] op = Mul -> ValueMul(a, b)
      [] op = Div -> ValueDiv(a, b)
      [] op = Pow -> ValuePow(a, b)

\* an Err result by its message: "Stack overflow in evaluator", "Stack
\* underflow in evaluator", "Stack empty in evaluator"
VmStackErr(kind, hi) == [tag |-> "Err", hi |-> hi, err |-> kind]

\* the loop goes on at pc with this stack
VmRun(pc, stack, hi) == [tag |-> "Run", pc |-> pc, stack |-> stack, hi |-> hi]

\* a push that never checks the limit
push_unchecked(stack, value) == [ok |-> TRUE, stack |-> Append(stack, value)]

\* push: an error at max_stack_size values, else the value goes on top
push(stack, value) ==
    IF Len(stack) >= max_stack_size THEN [ok |-> FALSE, stack |-> stack]
    ELSE [ok |-> TRUE, stack |-> Append(stack, value)]

\* `self.push(v)?` at the end of an opcode's arm
PushAndRun(stack, value, pc, hi) ==
    CHOOSE out \in {IF r.ok THEN VmRun(pc, r.stack, hi) ELSE VmStackErr("overflow", hi) :
                       r \in {push(stack, value)}} : TRUE

\* how many values the opcode pops with self.pop()
Pops(op) ==
    CASE op \in {Add, Sub, Mul, Div, Pow, Swap} -> 2
      [] op \in {Neg, FindTempo, FindMeasure, FindInstrument} -> 1
      [] OTHER -> 0

\* one iteration of `while pc < length` (pc0 < length)
DecodeStep(bytecode, length, eval_cache, pc0, stack, hi0) ==
    IF pc0 >= Len(bytecode) THEN VmPanic(hi0)
    ELSE
    LET op == bytecode[pc0 + 1]
        pc == pc0 + 1
        hi == Max(hi0, pc0)
        n  == Len(stack)
    IN
    IF ~OpFromByteOk(op) THEN VmErr(hi)
    ELSE IF n < Pops(op) THEN VmStackErr("underflow", hi)
    ELSE CASE op = LoadConst ->
                IF pc + 8 > length THEN VmErr(hi)
                ELSE IF pc + 8 > Len(bytecode) THEN VmPanic(Len(bytecode) - 1)
                ELSE PushAndRun(stack, ValueRational(read_i32(bytecode, pc),
                                                     read_i32(bytecode, pc + 4)),
                                pc + 8, Max(hi, pc + 7))
           [] op = LoadConstBig ->
                LET num == read_big_int_signed(bytecode, pc)
                IN  IF ~num.ok THEN VmErr(Max(hi, num.last))
                    ELSE LET den == read_big_int_unsigned(bytecode, pc + num.bytes)
                         IN  IF ~den.ok THEN VmErr(Max(hi, Max(num.last, den.last)))
                             ELSE PushAndRun(stack,
                                             Rational(from_big_ints(num.value, den.value)),
                                             pc + num.bytes + den.bytes, Max(hi, den.last))
           [] op = LoadRef ->
                IF pc + 3 > length THEN VmErr(hi)
                ELSE IF pc + 3 > Len(bytecode) THEN VmPanic(Len(bytecode) - 1)
                ELSE IF ~VarFromByteOk(bytecode[pc + 3]) THEN VmErr(Max(hi, pc + 2))
                ELSE PushAndRun(stack, LoadRefValue(eval_cache, read_u16(bytecode, pc),
                                                    bytecode[pc + 3]),
                                pc + 3, Max(hi, pc + 2))
           [] op = LoadBase ->
                IF pc + 1 > length THEN VmErr(hi)
                ELSE IF pc + 1 > Len(bytecode) THEN VmPanic(Len(bytecode) - 1)
                ELSE IF ~VarFromByteOk(bytecode[pc + 1]) THEN VmErr(Max(hi, pc))
                ELSE PushAndRun(stack, LoadBaseValue(eval_cache, bytecode[pc + 1]),
                                pc + 1, Max(hi, pc))
           [] op \in {Add, Sub, Mul, Div, Pow} ->
                PushAndRun(SubSeq(stack, 1, n - 2), BinaryOp(op, stack[n - 1], stack[n]), pc, hi)
           [] op = Neg ->
                PushAndRun(SubSeq(stack, 1, n - 1), ValueNeg(stack[n]), pc, hi)
           [] op = FindTempo ->
                PushAndRun(SubSeq(stack, 1, n - 1), FindTempoValue(eval_cache), pc, hi)
           [] op = FindMeasure ->
                PushAndRun(SubSeq(stack, 1, n - 1), FindMeasureValue(eval_cache, stack[n]),
                           pc, hi)
           [] op = FindInstrument ->
                PushAndRun(SubSeq(stack, 1, n - 1), ValueRational(0, 1), pc, hi)
           [] op = Dup ->
                IF n < 1 THEN VmStackErr("empty", hi) ELSE PushAndRun(stack, stack[n], pc, hi)
           [] op = Swap ->
                \* pop a, pop b, push a, push b: both pushes find room
                VmRun(pc, Append(Append(SubSeq(stack, 1, n - 2), stack[n]), stack[n - 1]), hi)

\* a loop exit that accepts a stack of exactly one value only
LoopExit_exactly_one(stack, hi) ==
    IF Len(stack) = 1 THEN VmOk(stack[1], hi) ELSE VmErr(hi)

\* what follows the loop: Ok(0) on an empty stack, else self.pop()
LoopExit(stack, hi) ==
    IF stack = <<>> THEN VmOk(ValueRational(0, 1), hi) ELSE VmOk(stack[Len(stack)], hi)

\* the `while pc < length` loop and the return that follows it
RECURSIVE DecodeLoop(_, _, _, _, _, _)
DecodeLoop(bytecode, length, eval_cache, pc0, stack, hi0) ==
    IF pc0 >= length THEN LoopExit(stack, hi0)
    ELSE CHOOSE out \in
            {IF s.tag = "Run"
                THEN DecodeLoop(bytecode, length, eval_cache, s.pc, s.stack, s.hi)
                ELSE s :
                s \in {DecodeStep(bytecode, length, eval_cache, pc0, stack, hi0)}} : TRUE

\* PersistentEvaluator::evaluate_with_cache on self.cache
evaluate_with_cache(bytecode, length, eval_cache) ==
    IF length = 0 THEN VmOk(ValueRational(0, 1), -1)
    ELSE DecodeLoop(bytecode, length, eval_cache, 0, <<>>, -1)

\* Evaluator::evaluate on the caller's eval_cache: the same decode loop
evaluate(bytecode, length, eval_cache) ==
    IF length = 0 THEN VmOk(ValueRational(0, 1), -1)
    ELSE DecodeLoop(bytecode, length, eval_cache, 0, <<>>, -1)

(***************************************************************************)
(* evaluator.rs : PersistentEvaluator.  An evaluator is the record of its   *)
(* cache, bytecode_store, dirty set and generation; the stack is cleared at *)
(* the start of every run and carries nothing between calls.  A registered  *)
(* expression is Some([bytecode, length]).                                  *)
(***************************************************************************)
Evaluator(c, b, d, g) == [cache |-> c, bytecode_store |-> b, dirty |-> d, generation |-> g]

\* PersistentEvaluator::new
new_evaluator == Evaluator(EmptyMap, EmptyMap, {}, 0)

\* NoteBytecode::default(): six empty slots
DefaultBytecode == [v \in Vars |-> None]

Expr(bytecode, length) == [bytecode |-> bytecode, length |-> length]

\* bytecode_store.entry(note_id).or_default()
EntryOrDefault(store, note_id) ==
    IF note_id \in DOMAIN store THEN store[note_id] ELSE DefaultBytecode

mark_dirty(pe, note_id) == [pe EXCEPT !.dirty = @ \cup {note_id}]

mark_dirty_batch(pe, note_ids) ==
    [pe EXCEPT !.dirty = @ \cup {note_ids[i] : i \in 1..Len(note_ids)}]

clear_dirty(pe) == [pe EXCEPT !.dirty = {}]

invalidate_note(pe, note_id) ==
    Evaluator(MapRemove(pe.cache, note_id), pe.bytecode_store,
              pe.dirty \cup {note_id}, pe.generation + 1)

invalidate_all(pe) == Evaluator(EmptyMap, EmptyMap, {}, pe.generation + 1)

\* a remove_note that forgets `self.dirty.remove(&note_id)`
pe_remove_note_keeps_dirty(pe, note_id) ==
    Evaluator(MapRemove(pe.cache, note_id), MapRemove(pe.bytecode_store, note_id),
              pe.dirty, pe.generation + 1)

pe_remove_note(pe, note_id) ==
    Evaluator(MapRemove(pe.cache, note_id), MapRemove(pe.bytecode_store, note_id),
              pe.dirty \ {note_id}, pe.generation + 1)

\* the entry is created before var_index is looked at
register_expression(pe, note_id, var_index, bytecode, length) ==
    LET entry == EntryOrDefault(pe.bytecode_store, note_id)
        entry2 == IF VarFromByteOk(var_index)
                     THEN [entry EXCEPT ![var_index] = Some(Expr(bytecode, length))]
                     ELSE entry
    IN  [pe EXCEPT !.bytecode_store = MapInsert(@, note_id, entry2)]

\* registerNote without `self.dirty.insert(note_id)`
register_note_not_marked(pe, note_id, expressions) ==
    LET entry == EntryOrDefault(pe.bytecode_store, note_id)
        entry2 == [v \in Vars |-> IF expressions[v].some THEN expressions[v] ELSE entry[v]]
    IN  [pe EXCEPT !.bytecode_store = MapInsert(@, note_id, entry2)]

\* expressions : Vars -> Option<[bytecode, length]>, the parsed JsExpressions;
\* only the slots that are Some are written
register_note(pe, note_id, expressions) ==
    LET entry == EntryOrDefault(pe.bytecode_store, note_id)
        entry2 == [v \in Vars |-> IF expressions[v].some THEN expressions[v] ELSE entry[v]]
    IN  [pe EXCEPT !.bytecode_store = MapInsert(@, note_id, entry2),
                   !.dirty = @ \cup {note_id}]

\* import_cache: the cache is replaced by the parsed one
import_cache(pe, new_cache) == [pe EXCEPT !.cache = new_cache, !.generation = @ + 1]

\* the body of `if let Ok(val) = self.evaluate_with_cache(bc, len) { .. }`
\* for the value r.value; st = [cache, result, flags]
StoreValue(st, note_id, var, publish, r) ==
    LET flags == IF is_corrupted(r.value)
                    THEN FlagOr(st.flags, corruption_flag_for_var(var))
                    ELSE st.flags
        result == set_var(st.result, var, from_value(r.value))
        published == [result EXCEPT !.corruption_flags = flags]
    IN  IF publish
        THEN [cache |-> MapInsert(st.cache, note_id, published),
              result |-> published, flags |-> flags]
        ELSE [cache |-> st.cache, result |-> result, flags |-> flags]

\* a block that stores zero for a variable whose bytecode fails
EvalBlock_zero_on_failure(st, note_id, exprs, var, publish) ==
    IF ~exprs[var].some THEN st
    ELSE CHOOSE out \in
            {IF r.tag # "Ok"
                THEN StoreValue(st, note_id, var, publish, VmOk(ValueRational(0, 1), -1))
                ELSE StoreValue(st, note_id, var, publish, r) :
                r \in {evaluate_with_cache(exprs[var].v.bytecode, exprs[var].v.length,
                                           st.cache)}} : TRUE

\* One `if let Some((bc, len)) = bytecode.get_expr(var) { if let Ok(val) = ... }`
\* block of evaluate_note_internal.  st = [cache, result, flags]; `publish` says
\* whether the block ends with `self.cache.insert(note_id, result.clone())`.
\* Registered expressions of this model have length <= buffer length, so no
\* run panics.  (The bytecode is run once: r ranges over the one outcome.)
EvalBlock(st, note_id, exprs, var, publish) ==
    IF ~exprs[var].some THEN st
    ELSE CHOOSE out \in
            {IF r.tag # "Ok" THEN st ELSE StoreValue(st, note_id, var, publish, r) :
                r \in {evaluate_with_cache(exprs[var].v.bytecode, exprs[var].v.length,
                                           st.cache)}} : TRUE

\* `result.measure_length.is_none() && (is_measure_note || note_id == 0)`
NeedsDerivedMeasure(result, note_id) ==
    LET is_measure_note == result.start_time.some /\ ~result.duration.some
                           /\ ~result.frequency.some
    IN  ~result.measure_length.some /\ (is_measure_note \/ note_id = 0)

\* a derived measureLength that skips the base note's cached values
DerivedMeasureLength_own_or_default(result, eval_cache) ==
    LET beats == ValueOr(result.beats_per_measure, ValueRational(4, 1))
        tempo == ValueOr(result.tempo, ValueRational(60, 1))
    IN  ValueDiv(ValueMul(beats, ValueRational(60, 1)), tempo)

\* step 4 of evaluate_note_internal: beatsPerMeasure / tempo * 60 from the note's
\* own values, else the base note's cached ones, else 4 and 60
DerivedMeasureLength(result, eval_cache) ==
    LET beats == ValueOr(OrElse(result.beats_per_measure, CacheVar(eval_cache, 0, BeatsPerMeasure)),
                         ValueRational(4, 1))
        tempo == ValueOr(OrElse(result.tempo, CacheVar(eval_cache, 0, Tempo)),
                         ValueRational(60, 1))
    IN  ValueDiv(ValueMul(beats, ValueRational(60, 1)), tempo)

\* `result.corruption_flags = corruption_flags; self.cache.insert(note_id, result.clone())`
InsertPartial(st, note_id) ==
    LET partial == [st.result EXCEPT !.corruption_flags = st.flags]
    IN  [cache |-> MapInsert(st.cache, note_id, partial),
         result |-> partial, flags |-> st.flags]

\* step 4 with its guard: the derived measureLength is set and flagged
DeriveBlock(st, note_id) ==
    IF ~NeedsDerivedMeasure(st.result, note_id) THEN st
    ELSE CHOOSE out \in
            {[cache |-> st.cache,
              result |-> [st.result EXCEPT !.measure_length = Some(from_value(measure_len))],
              flags |-> IF is_corrupted(measure_len)
                           THEN FlagOr(st.flags, corruption_flag_for_var(MeasureLength))
                           ELSE st.flags] :
                measure_len \in {DerivedMeasureLength(st.result, st.cache)}} : TRUE

\* `result.corruption_flags = corruption_flags; self.cache.insert(note_id, result); true`
InsertFinal(pe, st, note_id) ==
    [pe |-> [pe EXCEPT !.cache = MapInsert(st.cache, note_id,
                                           [st.result EXCEPT !.corruption_flags = st.flags])],
     ret |-> TRUE]

\* evaluate_note_internal: [pe, ret].  The blocks run in the order of the
\* code, each on the state the one before it left (s1 .. s8)
evaluate_note_internal(pe, note_id) ==
    IF note_id \notin DOMAIN pe.bytecode_store THEN [pe |-> pe, ret |-> FALSE]
    ELSE
    LET exprs == pe.bytecode_store[note_id]
        s0 == [cache |-> pe.cache, result |-> DefaultNote, flags |-> 0]
    IN  CHOOSE out \in
          {InsertFinal(pe, s8, note_id) :
            s8 \in {DeriveBlock(s7, note_id) :
            s7 \in {EvalBlock(s6, note_id, exprs, Duration, FALSE) :
            s6 \in {EvalBlock(s5, note_id, exprs, StartTime, TRUE) :
            s5 \in {EvalBlock(s4, note_id, exprs, MeasureLength, TRUE) :
            s4 \in {InsertPartial(s3, note_id) :
            s3 \in {EvalBlock(s2, note_id, exprs, Frequency, FALSE) :
            s2 \in {EvalBlock(s1, note_id, exprs, BeatsPerMeasure, FALSE) :
            s1 \in {EvalBlock(s0, note_id, exprs, Tempo, FALSE)}}}}}}}}} : TRUE

\* a loop that evaluates an id only where it is listed last
RECURSIVE EvaluateEach_skips_repeats(_, _, _)
EvaluateEach_skips_repeats(pe, sorted_ids, count) ==
    IF sorted_ids = <<>> THEN [pe |-> pe, count |-> count]
    ELSE IF \E i \in 2..Len(sorted_ids) : sorted_ids[i] = Head(sorted_ids)
    THEN EvaluateEach_skips_repeats(pe, Tail(sorted_ids), count)
    ELSE CHOOSE out \in
            {EvaluateEach_skips_repeats(r.pe, Tail(sorted_ids),
                                        IF r.ret THEN count + 1 ELSE count) :
                r \in {evaluate_note_internal(pe, Head(sorted_ids))}} : TRUE

\* the `for &note_id in sorted_ids` loop of evaluate_dirty: [pe, count]
RECURSIVE EvaluateEach(_, _, _)
EvaluateEach(pe, sorted_ids, count) ==
    IF sorted_ids = <<>> THEN [pe |-> pe, count |-> count]
    ELSE CHOOSE out \in
            {EvaluateEach(r.pe, Tail(sorted_ids), IF r.ret THEN count + 1 ELSE count) :
                r \in {evaluate_note_internal(pe, Head(sorted_ids))}} : TRUE

\* an evaluate_dirty that bumps generation once per evaluated note
evaluate_dirty_bumps_per_note(pe, sorted_ids) ==
    CHOOSE out \in
        {[pe |-> [r.pe EXCEPT !.dirty = {}, !.generation = @ + r.count], count |-> r.count] :
            r \in {EvaluateEach(pe, sorted_ids, 0)}} : TRUE

\* an evaluate_dirty that takes only the notes it evaluated out of the dirty set
evaluate_dirty_keeps_unevaluated(pe, sorted_ids) ==
    CHOOSE out \in
        {[pe |-> [r.pe EXCEPT !.dirty = @ \ {sorted_ids[i] : i \in {j \in DOMAIN sorted_ids :
                                                  sorted_ids[j] \in DOMAIN pe.bytecode_store}},
                              !.generation = @ + 1],
          count |-> r.count] :
            r \in {EvaluateEach(pe, sorted_ids, 0)}} : TRUE

\* evaluate_dirty: [pe, count]
evaluate_dirty(pe, sorted_ids) ==
    CHOOSE out \in
        {[pe |-> [r.pe EXCEPT !.dirty = {}, !.generation = @ + 1], count |-> r.count] :
            r \in {EvaluateEach(pe, sorted_ids, 0)}} : TRUE

(***************************************************************************)
(* compiler.rs : bytecode emission.  A compiler state is the record of the  *)
(* bytecode, the dependencies and references_base collected so far.         *)
(***************************************************************************)
new_compiler == [bytecode |-> <<>>, dependencies |-> {}, references_base |-> FALSE]

normalize_fraction(num, den) ==
    IF den = 0 THEN <<0, 1>>
    ELSE LET gcd  == Gcd(Abs(num), Abs(den))
             sign == IF (num < 0) # (den < 0) THEN -1 ELSE 1
         IN  <<sign * (Abs(num) \div gcd), Abs(den) \div gcd>>

emit_constant(c, num, den) ==
    LET nd == normalize_fraction(num, den)
    IN  [c EXCEPT !.bytecode = @ \o <<LoadConst>> \o write_i32(nd[1]) \o write_i32(nd[2])]

emit_base_ref(c, var_index) ==
    [c EXCEPT !.bytecode = @ \o <<LoadBase, var_index>>, !.references_base = TRUE]

emit_note_ref(c, note_id, var_index) ==
    [c EXCEPT !.bytecode = @ \o <<LoadRef>> \o write_u16(note_id) \o <<var_index>>,
              !.dependencies = @ \cup {note_id}]

emit_op(c, op) == [c EXCEPT !.bytecode = @ \o <<op>>]

(***************************************************************************)
(* compiler.rs : parsing.  The text of an expression is the sequence of its *)
(* UTF-8 code units: an ASCII unit is the one-character string, and the two *)
(* units of U+00E9 are "C3" and "A9".  Indices are byte offsets from 0, as   *)
(* in the source.  A parse function returns ParseOk with the compiler that   *)
(* results, ParseErr for Err(..), or ParsePanic where the code panics.       *)
(***************************************************************************)
Continuation == {"A9"}

Whitespace == {" "}

\* the value x, computed once, handed to F
Let(x, F(_)) == CHOOSE out \in {F(r) : r \in {x}} : TRUE

Panicked == [panic |-> TRUE]

IsPanic(r) == "panic" \in DOMAIN r

ParseOk(c) == [res |-> "Ok", c |-> c]

ParseErr == [res |-> "Err"]

ParsePanic == [res |-> "Panic"]

\* `x?; F`: F goes on from the compiler x left, an Err or a panic of x is returned
AndThen(x, F(_)) == CHOOSE out \in {IF r.res = "Ok" THEN F(r.c) ELSE r : r \in {x}} : TRUE

\* str::is_char_boundary
is_char_boundary(s, i) ==
    i = 0 \/ i = Len(s) \/ (i > 0 /\ i < Len(s) /\ s[i + 1] \notin Continuation)

\* &s[a..b] panics unless the range is ordered, inside s and on char boundaries
SliceOk(s, a, b) ==
    a <= b /\ b <= Len(s) /\ is_char_boundary(s, a) /\ is_char_boundary(s, b)

Slice(s, a, b) == SubSeq(s, a + 1, b)

RECURSIVE trim_start(_)
trim_start(s) == IF s # <<>> /\ Head(s) \in Whitespace THEN trim_start(Tail(s)) ELSE s

RECURSIVE trim_end(_)
trim_end(s) ==
    IF s # <<>> /\ s[Len(s)] \in Whitespace THEN trim_end(SubSeq(s, 1, Len(s) - 1)) ELSE s

trim(s) == trim_end(trim_start(s))

starts_with(s, p) == Len(p) <= Len(s) /\ SubSeq(s, 1, Len(p)) = p

ends_with(s, p) == Len(p) <= Len(s) /\ SubSeq(s, Len(s) - Len(p) + 1, Len(s)) = p

Matches(s, p) == {i \in 0..(Len(s) - Len(p)) : SubSeq(s, i + 1, i + Len(p)) = p}

find(s, p) ==
    Let(Matches(s, p),
        LAMBDA at : IF at = {} THEN None
                    ELSE Some(CHOOSE i \in at : \A j \in at : i <= j))

rfind(s, p) ==
    Let(Matches(s, p),
        LAMBDA at : IF at = {} THEN None
                    ELSE Some(CHOOSE i \in at : \A j \in at : i >= j))

\* s.split(sep) on a one-unit separator: at least one part
RECURSIVE split(_, _)
split(s, sep) ==
    Let(find(s, <<sep>>),
        LAMBDA at : IF ~at.some THEN <<s>>
                    ELSE <<Slice(s, 0, at.v)>> \o split(Slice(s, at.v + 1, Len(s)), sep))

DotAdd == <<".", "a", "d", "d", "(">>

DotSub == <<".", "s", "u", "b", "(">>

DotMul == <<".", "m", "u", "l", "(">>

DotDiv == <<".", "d", "i", "v", "(">>

NewKeyword == <<"n", "e", "w">>

FractionOpen == <<"F", "r", "a", "c", "t", "i", "o", "n", "(">>

BaseRefPrefix ==
    <<"m", "o", "d", "u", "l", "e", ".", "b", "a", "s", "e", "N", "o", "t",
      "e", ".", "g", "e", "t", "V", "a", "r", "i", "a", "b", "l", "e", "(",
      "'">>

NoteRefPrefix ==
    <<"m", "o", "d", "u", "l", "e", ".", "g", "e", "t", "N", "o", "t", "e",
      "B", "y", "I", "d", "(">>

VarPrefix ==
    <<".", "g", "e", "t", "V", "a", "r", "i", "a", "b", "l", "e", "(", "'">>

VarSuffix == <<"'", ")">>

FindTempoPrefix ==
    <<"m", "o", "d", "u", "l", "e", ".", "f", "i", "n", "d", "T", "e", "m",
      "p", "o", "(">>

FindMeasurePrefix ==
    <<"m", "o", "d", "u", "l", "e", ".", "f", "i", "n", "d", "M", "e", "a",
      "s", "u", "r", "e", "L", "e", "n", "g", "t", "h", "(">>

BeatUnitPrefix ==
    <<"n", "e", "w", " ", "F", "r", "a", "c", "t", "i", "o", "n", "(", "6",
      "0", ")", ".", "d", "i", "v", "(", "m", "o", "d", "u", "l", "e", ".",
      "f", "i", "n", "d", "T", "e", "m", "p", "o", "(">>

ModuleBaseNote ==
    <<"m", "o", "d", "u", "l", "e", ".", "b", "a", "s", "e", "N", "o", "t",
      "e">>

Inf == <<"i", "n", "f">>

Infinity == <<"i", "n", "f", "i", "n", "i", "t", "y">>

Nan == <<"n", "a", "n">>

VarNames ==
    <<<<"s", "t", "a", "r", "t", "T", "i", "m", "e">>,
      <<"d", "u", "r", "a", "t", "i", "o", "n">>,
      <<"f", "r", "e", "q", "u", "e", "n", "c", "y">>,
      <<"t", "e", "m", "p", "o">>,
      <<"b", "e", "a", "t", "s", "P", "e", "r", "M", "e", "a", "s", "u", "r", "e">>,
      <<"m", "e", "a", "s", "u", "r", "e", "L", "e", "n", "g", "t", "h">>>>

\* Var::from_name
from_name(name) ==
    IF \E v \in Vars : VarNames[v + 1] = name
       THEN Some(CHOOSE v \in Vars : VarNames[v + 1] = name)
       ELSE None

MinI32 == -2147483647 - 1

MaxI32 == 2147483647

Digits == <<"0", "1", "2", "3", "4", "5", "6", "7", "8", "9">>

IsDigit(c) == \E d \in 1..10 : Digits[d] = c

DigitValue(c) == (CHOOSE d \in 1..10 : Digits[d] = c) - 1

\* the decimal digits s added to the 32-bit magnitude acc = <<high, low>> (two
\* 16-bit halves): None on a unit that is no digit and above u32::MAX
RECURSIVE parse_digits(_, _)
parse_digits(s, acc) ==
    IF s = <<>> THEN Some(acc)
    ELSE IF ~IsDigit(Head(s)) THEN None
    ELSE LET low  == acc[2] * 10 + DigitValue(Head(s))
             high == acc[1] * 10 + low \div 65536
         IN  IF high >= 65536 THEN None
             ELSE parse_digits(Tail(s), <<high, low % 65536>>)

\* str::parse::<u32>: an optional '+', then one digit at least.  The id is kept
\* as the i32 with the same 32 bits.
parse_u32(s) ==
    LET body == IF s # <<>> /\ Head(s) = "+" THEN Tail(s) ELSE s
    IN  IF body = <<>> THEN None
        ELSE Let(parse_digits(body, <<0, 0>>),
                 LAMBDA m : IF m.some THEN Some(as_i32(m.v)) ELSE None)

\* str::parse::<i32>: an optional sign, then one digit at least, inside the range
parse_i32(s) ==
    LET negative == s # <<>> /\ Head(s) = "-"
        body     == IF s # <<>> /\ Head(s) \in {"+", "-"} THEN Tail(s) ELSE s
    IN  IF body = <<>> THEN None
        ELSE Let(parse_digits(body, <<0, 0>>),
                 LAMBDA m :
                    IF ~m.some THEN None
                    ELSE IF m.v[1] < 32768
                       THEN Some(IF negative THEN -as_i32(m.v) ELSE as_i32(m.v))
                    ELSE IF negative /\ m.v = <<32768, 0>> THEN Some(MinI32)
                    ELSE None)

\* the integer digits of a float literal as `abs_value.round() as i32` sees
\* them: the value below 2^31, else MaxI32 (the cast saturates)
RECURSIVE saturating_digits(_, _)
saturating_digits(s, acc) ==
    IF s = <<>> THEN Some(acc)
    ELSE IF ~IsDigit(Head(s)) THEN None
    ELSE IF acc > (MaxI32 - 9) \div 10 THEN saturating_digits(Tail(s), MaxI32)
    ELSE saturating_digits(Tail(s), acc * 10 + DigitValue(Head(s)))

RECURSIVE Pow10(_)
Pow10(k) == IF k = 0 THEN 1 ELSE 10 * Pow10(k - 1)

\* a finite f64: its sign, its integer part (MaxI32 from 2^31 up, which is what
\* every cast to i32 below makes of it) and its fraction fnum/fden
Finite(negative, int, fnum, fden) ==
    [finite |-> TRUE, negative |-> negative, int |-> int, fnum |-> fnum, fden |-> fden]

NonFinite == [finite |-> FALSE]

\* the digits after the '.', as a number
RECURSIVE fraction_digits(_, _)
fraction_digits(s, acc) ==
    IF s = <<>> THEN Some(acc)
    ELSE IF ~IsDigit(Head(s)) THEN None
    ELSE fraction_digits(Tail(s), acc * 10 + DigitValue(Head(s)))

\* str::parse::<f64> on the literals of this model's texts: an optional sign,
\* then inf, infinity or nan, or digits with an optional '.' and digits (one
\* digit at least).  The texts have no exponent and few fraction digits, so
\* that the f64 is the decimal itself.
parse_f64(s) ==
    LET negative == s # <<>> /\ Head(s) = "-"
        body     == IF s # <<>> /\ Head(s) \in {"+", "-"} THEN Tail(s) ELSE s
    IN  IF body \in {Inf, Infinity, Nan} THEN Some(NonFinite)
        ELSE Let(find(body, <<".">>),
                 LAMBDA dot :
                    LET int_digits  == IF dot.some THEN Slice(body, 0, dot.v) ELSE body
                        frac_digits == IF dot.some THEN Slice(body, dot.v + 1, Len(body))
                                       ELSE <<>>
                    IN  IF int_digits = <<>> /\ frac_digits = <<>> THEN None
                        ELSE Let(<<saturating_digits(int_digits, 0),
                                   fraction_digits(frac_digits, 0)>>,
                                 LAMBDA p :
                                    IF ~p[1].some \/ ~p[2].some THEN None
                                    ELSE Some(Finite(negative, p[1].v, p[2].v,
                                                     Pow10(Len(frac_digits))))))

\* the table of decimal_to_fraction, each decimal times 10^7
simple_tests ==
    <<<<2500000, 1, 4>>, <<5000000, 1, 2>>, <<7500000, 3, 4>>, <<1250000, 1, 8>>,
      <<3750000, 3, 8>>, <<6250000, 5, 8>>, <<8750000, 7, 8>>, <<2000000, 1, 5>>,
      <<4000000, 2, 5>>, <<6000000, 3, 5>>, <<8000000, 4, 5>>, <<3333330, 1, 3>>,
      <<6666660, 2, 3>>, <<1666666, 1, 6>>, <<8333333, 5, 6>>, <<12500000, 5, 4>>,
      <<15000000, 3, 2>>, <<17500000, 7, 4>>, <<25000000, 5, 2>>, <<1000000, 1, 10>>>>

\* x.round() of the positive x = num/den
Round(num, den) == (2 * num + den) \div (2 * den)

\* the `for d in 1..=10000` search for abs_value = int + fnum/q.  The candidate
\* is n = int*d + r with r = round(fnum*d/q), and its error is
\* |fnum*d - r*q| / (q*d); an error that is not zero is 1/(q*d) at least, above
\* 1e-10 for the fractions of this model, so `err < 1e-10` is err = 0.  The best
\* candidate so far is int*best_den + best_r over best_den.
RECURSIVE SearchLoop(_, _, _, _, _, _)
SearchLoop(int, fnum, q, d, best_r, best_den) ==
    IF d > 10000 THEN <<int * best_den + best_r, best_den>>
    ELSE LET r        == Round(fnum * d, q)
             err      == Abs(fnum * d - r * q)
             best_err == Abs(fnum * best_den - best_r * q)
         IN  IF err * best_den < best_err * d
                THEN IF err = 0 THEN <<int * d + r, d>>
                     ELSE SearchLoop(int, fnum, q, d + 1, r, d)
                ELSE SearchLoop(int, fnum, q, d + 1, best_r, best_den)

\* ExpressionCompiler::decimal_to_fraction.  `(abs_value - abs_value.round())
\* .abs() < 1e-10` is fnum = 0 for the fractions of this model; no table entry
\* is within 1e-6 of a value from 3 up; from 2^31 up every candidate of the
\* search saturates to i32::MAX and none improves on the first.
decimal_to_fraction(value) ==
    IF ~value.finite THEN <<0, 1>>
    ELSE LET sign == IF value.negative THEN -1 ELSE 1
         IN  IF value.int = 0 /\ value.fnum = 0 THEN <<0, 1>>
             ELSE IF value.fnum = 0 \/ value.int = MaxI32 THEN <<sign * value.int, 1>>
             ELSE LET q    == value.fden
                      hits == IF value.int >= 3 THEN {}
                              ELSE {k \in 1..Len(simple_tests) :
                                      Abs((value.int * q + value.fnum) * (10000000 \div q)
                                          - simple_tests[k][1]) < 10}
                  IN  IF hits # {}
                         THEN LET k == CHOOSE k \in hits : \A j \in hits : k <= j
                              IN  <<sign * simple_tests[k][2], simple_tests[k][3]>>
                         ELSE LET best == SearchLoop(value.int, value.fnum, q, 1,
                                                     Round(value.fnum, q), 1)
                              IN  <<sign * best[1], best[2]>>

\* i32::wrapping_abs
wrapping_abs(x) == IF x = MinI32 THEN MinI32 ELSE Abs(x)

\* a % b of i32 (truncating, the sign of the dividend), b not 0 and not MinI32 % -1
i32_rem(a, b) ==
    IF b = MinI32 THEN (IF a = MinI32 THEN 0 ELSE a)
    ELSE IF a = MinI32 THEN -(((MaxI32 % Abs(b)) + 1) % Abs(b))
    ELSE IF a < 0 THEN -((-a) % Abs(b))
    ELSE a % Abs(b)

\* a / b of i32 (truncating), b not 0 and not MinI32 / -1
i32_div(a, b) ==
    IF b = MinI32 THEN (IF a = MinI32 THEN 1 ELSE 0)
    ELSE IF a = MinI32
       THEN IF Abs(b) = 1 THEN MinI32
            ELSE (IF b < 0 THEN 1 ELSE -1)
                 * (MaxI32 \div Abs(b) + (IF (MaxI32 % Abs(b)) + 1 = Abs(b) THEN 1 ELSE 0))
    ELSE (IF (a < 0) # (b < 0) THEN -1 ELSE 1) * (Abs(a) \div Abs(b))

\* ExpressionCompiler::gcd on any two i32: `a % b` panics on MinI32 % -1
RECURSIVE gcd(_, _)
gcd(a, b) ==
    IF b = 0 THEN Some(a)
    ELSE IF a = MinI32 /\ b = -1 THEN Panicked
    ELSE gcd(b, i32_rem(a, b))

\* normalize_fraction where num or den is i32::MIN and den is not 0: with
\* overflow checks `abs()` panics; without them it wraps to i32::MIN, `/` panics
\* on MinI32 / -1 and `sign * ..` wraps
normalize_fraction_min(num, den, overflow_checks) ==
    IF overflow_checks THEN Panicked
    ELSE Let(gcd(wrapping_abs(num), wrapping_abs(den)),
             LAMBDA g :
                IF IsPanic(g) THEN Panicked
                ELSE IF g.v = -1 /\ MinI32 \in {wrapping_abs(num), wrapping_abs(den)}
                   THEN Panicked
                ELSE LET n == i32_div(wrapping_abs(num), g.v)
                         sign == IF (num < 0) # (den < 0) THEN -1 ELSE 1
                     IN  Some(<<IF n = MinI32 THEN MinI32 ELSE sign * n,
                                i32_div(wrapping_abs(den), g.v)>>))

\* emit_constant on any two i32: a panic, or the compiler after the push
emit_constant_i32(c, num, den, overflow_checks) ==
    IF den = 0 \/ (num # MinI32 /\ den # MinI32) THEN ParseOk(emit_constant(c, num, den))
    ELSE Let(normalize_fraction_min(num, den, overflow_checks),
             LAMBDA nd :
                IF IsPanic(nd) THEN ParsePanic
                ELSE ParseOk([c EXCEPT !.bytecode = @ \o <<LoadConst>> \o write_i32(nd.v[1])
                                                      \o write_i32(nd.v[2])]))

\* emit_fraction_literal
emit_fraction_literal(c, caps, overflow_checks) ==
    emit_constant_i32(c, caps[1], caps[2], overflow_checks)

\* emit_base_ref from the variable's name
emit_base_ref_named(c, var_name) ==
    Let(from_name(var_name),
        LAMBDA var_index : IF var_index.some THEN ParseOk(emit_base_ref(c, var_index.v))
                           ELSE ParseErr)

\* emit_note_ref from the variable's name
emit_note_ref_named(c, note_id, var_name) ==
    Let(from_name(var_name),
        LAMBDA var_index : IF var_index.some
                              THEN ParseOk(emit_note_ref(c, note_id, var_index.v))
                              ELSE ParseErr)

\* RefKind
Base == [kind |-> "Base"]

Note(id) == [kind |-> "Note", id |-> id]

\* emit_find_tempo and emit_find_measure: the LOAD_BASE or LOAD_REF of var
emit_find(c, ref_kind, var) ==
    ParseOk(IF ref_kind.kind = "Base" THEN emit_base_ref(c, var)
            ELSE emit_note_ref(c, ref_kind.id, var))

emit_find_tempo(c, ref_kind) == emit_find(c, ref_kind, Tempo)

emit_find_measure(c, ref_kind) == emit_find(c, ref_kind, MeasureLength)

\* the parenthesis depth a byte loop that starts at byte i with this depth has
\* at byte j: `b'(' => depth += 1` and `b')' => depth -= 1` over the bytes between
DepthAt(expr, i, depth, j) ==
    depth + Cardinality({k \in i..(j - 1) : expr[k + 1] = "("})
          - Cardinality({k \in i..(j - 1) : expr[k + 1] = ")"})

\* the least index of a set of indices
First(at) == IF at = {} THEN None ELSE Some(CHOOSE i \in at : \A j \in at : i <= j)

\* read_call_argument: the loop runs to the first ')' at depth 0; the text up
\* to it and the index after it, or the rest of the text and its length
read_call_argument(expr, start_index) ==
    Let(First({i \in start_index..(Len(expr) - 1) :
                  expr[i + 1] = ")" /\ DepthAt(expr, start_index, 0, i) = 0}),
        LAMBDA close :
           IF close.some
              THEN [arg |-> trim(Slice(expr, start_index, close.v)), next |-> close.v + 1]
              ELSE [arg |-> trim(Slice(expr, start_index, Len(expr))),
                    next |-> Len(expr)])

\* the loops of try_split_add_sub and try_split_mul_div pass over parentheses
\* and over bytes at another depth than 0; at any other byte they slice
\* `expr[i..]`, which panics inside a character, and look for a method there.
\* The first byte from i on where such a loop does more than `i += 1`.
NextStop(expr, i, depth, methods) ==
    First({j \in i..(Len(expr) - 1) :
              /\ expr[j + 1] \notin {"(", ")"}
              /\ DepthAt(expr, i, depth, j) = 0
              /\ \/ ~SliceOk(expr, j, Len(expr))
                 \/ \E p \in methods : starts_with(Slice(expr, j, Len(expr)), p)})

\* the loop of try_split_add_sub from byte i on
RECURSIVE SplitAddSub(_, _, _, _, _, _)
SplitAddSub(expr, i, depth, last_split, found_first, terms) ==
    Let(NextStop(expr, i, depth, {DotAdd, DotSub}),
        LAMBDA stop :
           IF ~stop.some THEN (IF found_first THEN Some(terms) ELSE None)
           ELSE IF ~SliceOk(expr, stop.v, Len(expr)) THEN Panicked
           ELSE Let(read_call_argument(expr, stop.v + 5),
                    LAMBDA a :
                       SplitAddSub(expr, a.next, 0, a.next, TRUE,
                                   (IF found_first THEN terms
                                    ELSE <<<<1, trim(Slice(expr, last_split, stop.v))>>>>)
                                   \o <<<<IF starts_with(Slice(expr, stop.v, Len(expr)),
                                                         DotAdd)
                                             THEN 1 ELSE -1,
                                          a.arg>>>>)))

\* try_split_add_sub: None, Some(terms) with terms of <<sign, text>>, or a panic
try_split_add_sub(expr) == SplitAddSub(expr, 0, 0, 0, FALSE, <<>>)

\* the second loop of try_split_mul_div, from byte i on: the operations
\* <<op, operand>>
RECURSIVE Operations(_, _, _, _)
Operations(expr, i, depth, operations) ==
    Let(NextStop(expr, i, depth, {DotMul, DotDiv}),
        LAMBDA stop :
           IF ~stop.some THEN Some(operations)
           ELSE IF ~SliceOk(expr, stop.v, Len(expr)) THEN Panicked
           ELSE Let(read_call_argument(expr, stop.v + 5),
                    LAMBDA a :
                       Operations(expr, a.next, 0,
                                  Append(operations,
                                         <<IF starts_with(Slice(expr, stop.v, Len(expr)),
                                                          DotMul)
                                              THEN Mul ELSE Div,
                                           a.arg>>))))

\* try_split_mul_div: the first loop stops at the first .mul( or .div( at depth
\* 0, the second starts there.  None, Some of the base and the operations, or a
\* panic
try_split_mul_div(expr) ==
    Let(NextStop(expr, 0, 0, {DotMul, DotDiv}),
        LAMBDA first_op :
           IF ~first_op.some THEN None
           ELSE IF ~SliceOk(expr, first_op.v, Len(expr)) THEN Panicked
           ELSE Let(Operations(expr, first_op.v, 0, <<>>),
                    LAMBDA ops :
                       IF IsPanic(ops) THEN Panicked
                       ELSE IF ops.v = <<>> THEN None
                       ELSE Some([base |-> trim(Slice(expr, 0, first_op.v)),
                                  operations |-> ops.v])))

\* the index among trimmed.chars() of the char at byte k
CharIndex(trimmed, k) == Cardinality({j \in 0..(k - 1) : trimmed[j + 1] \notin Continuation})

\* strip_outer_parens: the loop returns the text as it is at a ')' that brings
\* the depth to 0 and whose index among the chars is not the byte length less 1
strip_outer_parens(s) ==
    Let(trim(s),
        LAMBDA trimmed :
           IF ~starts_with(trimmed, <<"(">>) \/ ~ends_with(trimmed, <<")">>) THEN trimmed
           ELSE IF \E k \in 0..(Len(trimmed) - 1) :
                      /\ trimmed[k + 1] = ")"
                      /\ DepthAt(trimmed, 0, 0, k + 1) = 0
                      /\ CharIndex(trimmed, k) # Len(trimmed) - 1
              THEN trimmed
           ELSE IF DepthAt(trimmed, 0, 0, Len(trimmed)) = 0
              THEN trim(Slice(trimmed, 1, Len(trimmed) - 1))
           ELSE trimmed)

\* match_fraction_literal: Some(<<num, den>>) or None
match_fraction_literal(text) ==
    Let(trim(text),
        LAMBDA s :
           IF ~starts_with(s, NewKeyword) THEN None
           ELSE Let(<<find(s, FractionOpen), rfind(s, <<")">>)>>,
                    LAMBDA at :
                       IF ~at[1].some \/ ~at[2].some THEN None
                       ELSE IF at[2].v <= at[1].v + 9 THEN None
                       ELSE IF trim(Slice(s, at[2].v + 1, Len(s))) # <<>> THEN None
                       ELSE Let(split(Slice(s, at[1].v + 9, at[2].v), ","),
                                LAMBDA args :
                                   IF Len(args) = 1
                                      THEN Let(parse_f64(trim(args[1])),
                                               LAMBDA num :
                                                  IF num.some
                                                     THEN Some(decimal_to_fraction(num.v))
                                                     ELSE None)
                                   ELSE IF Len(args) = 2
                                      THEN Let(<<parse_i32(trim(args[1])),
                                                 parse_i32(trim(args[2]))>>,
                                               LAMBDA nd :
                                                  IF nd[1].some /\ nd[2].some
                                                     THEN Some(<<nd[1].v, nd[2].v>>)
                                                     ELSE None)
                                   ELSE None)))

\* match_base_ref: Some(var_name), None, or the panic of the slice when the
\* prefix and the suffix overlap
match_base_ref(s) ==
    IF starts_with(s, BaseRefPrefix) /\ ends_with(s, VarSuffix)
       THEN IF SliceOk(s, Len(BaseRefPrefix), Len(s) - Len(VarSuffix))
               THEN Some(Slice(s, Len(BaseRefPrefix), Len(s) - Len(VarSuffix)))
               ELSE Panicked
       ELSE None

\* match_note_ref: Some(<<note_id, var_name>>), None, or the panic of the last slice
match_note_ref(s) ==
    IF ~starts_with(s, NoteRefPrefix) THEN None
    ELSE Let(Slice(s, Len(NoteRefPrefix), Len(s)),
             LAMBDA rest :
                Let(find(rest, <<")">>),
                    LAMBDA paren_pos :
                       IF ~paren_pos.some THEN None
                       ELSE Let(<<parse_u32(trim(Slice(rest, 0, paren_pos.v))),
                                  Slice(rest, paren_pos.v + 1, Len(rest))>>,
                                LAMBDA p :
                                   IF ~p[1].some THEN None
                                   ELSE IF starts_with(p[2], VarPrefix)
                                           /\ ends_with(p[2], VarSuffix)
                                      THEN IF SliceOk(p[2], Len(VarPrefix),
                                                      Len(p[2]) - Len(VarSuffix))
                                              THEN Some(<<p[1].v,
                                                          Slice(p[2], Len(VarPrefix),
                                                                Len(p[2]) - Len(VarSuffix))>>)
                                              ELSE Panicked
                                   ELSE None)))

\* parse_ref_arg: the base note unless the text is module.getNoteById(<u32>)
parse_ref_arg(text) ==
    Let(trim(text),
        LAMBDA s :
           IF s = ModuleBaseNote THEN Some(Base)
           ELSE IF starts_with(s, NoteRefPrefix) /\ ends_with(s, <<")">>)
              THEN Let(parse_u32(trim(Slice(s, Len(NoteRefPrefix), Len(s) - 1))),
                       LAMBDA id : IF id.some THEN Some(Note(id.v)) ELSE Some(Base))
           ELSE Some(Base))

\* match_find_tempo, match_find_measure and match_beat_unit: the argument
\* between the prefix and the suffix
match_call(s, prefix, suffix) ==
    IF starts_with(s, prefix) /\ ends_with(s, suffix)
       THEN parse_ref_arg(Slice(s, Len(prefix), Len(s) - Len(suffix)))
       ELSE None

match_find_tempo(s) == match_call(s, FindTempoPrefix, <<")">>)

match_find_measure(s) == match_call(s, FindMeasurePrefix, <<")">>)

match_beat_unit(s) == match_call(s, BeatUnitPrefix, <<")", ")">>)

RECURSIVE parse_and_emit_product(_, _, _), parse_and_emit_atomic(_, _, _)

\* the loop `for (op, operand) in operations` of a product
RECURSIVE EmitOperations(_, _, _)
EmitOperations(c, operations, overflow_checks) ==
    IF operations = <<>> THEN ParseOk(c)
    ELSE AndThen(AndThen(parse_and_emit_atomic(c, operations[1][2], overflow_checks),
                         LAMBDA c1 : ParseOk(emit_op(c1, operations[1][1]))),
                 LAMBDA c2 : EmitOperations(c2, Tail(operations), overflow_checks))

\* a split product: the base, then each operand and its MUL or DIV
EmitProduct(c, split_product, overflow_checks) ==
    AndThen(parse_and_emit_atomic(c, split_product.base, overflow_checks),
            LAMBDA c1 : EmitOperations(c1, split_product.operations, overflow_checks))

\* the loop `for (sign, ref expr) in &terms[1..]` of emit_sum
RECURSIVE EmitTerms(_, _, _)
EmitTerms(c, terms, overflow_checks) ==
    IF terms = <<>> THEN ParseOk(c)
    ELSE AndThen(AndThen(parse_and_emit_product(c, terms[1][2], overflow_checks),
                         LAMBDA c1 : ParseOk(emit_op(c1, IF terms[1][1] < 0 THEN Sub
                                                         ELSE Add))),
                 LAMBDA c2 : EmitTerms(c2, Tail(terms), overflow_checks))

\* emit_sum
emit_sum(c, terms, overflow_checks) ==
    IF terms = <<>> THEN emit_constant_i32(c, 0, 1, overflow_checks)
    ELSE AndThen(AndThen(parse_and_emit_product(c, terms[1][2], overflow_checks),
                         LAMBDA c1 : ParseOk(IF terms[1][1] < 0 THEN emit_op(c1, Neg)
                                             ELSE c1)),
                 LAMBDA c2 : EmitTerms(c2, Tail(terms), overflow_checks))

\* parse_and_emit_atomic, from the last case to the first.
\* 9. a bare variable name, else the fallback: emit zero
TryBareVariable(c, trimmed, overflow_checks) ==
    IF \E v \in Vars : VarNames[v + 1] = trimmed THEN emit_base_ref_named(c, trimmed)
    ELSE emit_constant_i32(c, 0, 1, overflow_checks)

\* 8. nested expressions: a product
TryNestedProduct(c, trimmed, overflow_checks) ==
    Let(try_split_mul_div(trimmed),
        LAMBDA split_product :
           IF IsPanic(split_product) THEN ParsePanic
           ELSE IF split_product.some
              THEN EmitProduct(c, split_product.v, overflow_checks)
           ELSE TryBareVariable(c, trimmed, overflow_checks))

\* 8. nested expressions: a sum
TryNestedSum(c, trimmed, overflow_checks) ==
    Let(try_split_add_sub(trimmed),
        LAMBDA terms :
           IF IsPanic(terms) THEN ParsePanic
           ELSE IF terms.some /\ Len(terms.v) > 1
              THEN emit_sum(c, terms.v, overflow_checks)
           ELSE TryNestedProduct(c, trimmed, overflow_checks))

\* 7. a number literal
TryNumber(c, trimmed, overflow_checks) ==
    Let(parse_f64(trimmed),
        LAMBDA num :
           IF num.some
              THEN Let(decimal_to_fraction(num.v),
                       LAMBDA frac : emit_constant_i32(c, frac[1], frac[2], overflow_checks))
              ELSE TryNestedSum(c, trimmed, overflow_checks))

\* 6. the beat unit new Fraction(60).div(module.findTempo(ref))
TryBeatUnit(c, trimmed, overflow_checks) ==
    Let(match_beat_unit(trimmed),
        LAMBDA ref_kind :
           IF ref_kind.some
              THEN AndThen(emit_find_tempo(emit_constant(c, 60, 1), ref_kind.v),
                           LAMBDA c1 : ParseOk(emit_op(c1, Div)))
              ELSE TryNumber(c, trimmed, overflow_checks))

\* 5. module.findMeasureLength(ref)
TryFindMeasure(c, trimmed, overflow_checks) ==
    Let(match_find_measure(trimmed),
        LAMBDA ref_kind :
           IF ref_kind.some THEN emit_find_measure(c, ref_kind.v)
           ELSE TryBeatUnit(c, trimmed, overflow_checks))

\* 4. module.findTempo(ref)
TryFindTempo(c, trimmed, overflow_checks) ==
    Let(match_find_tempo(trimmed),
        LAMBDA ref_kind :
           IF ref_kind.some THEN emit_find_tempo(c, ref_kind.v)
           ELSE TryFindMeasure(c, trimmed, overflow_checks))

\* 3. module.getNoteById(id).getVariable('varName')
TryNoteRef(c, trimmed, overflow_checks) ==
    Let(match_note_ref(trimmed),
        LAMBDA ref :
           IF IsPanic(ref) THEN ParsePanic
           ELSE IF ref.some THEN emit_note_ref_named(c, ref.v[1], ref.v[2])
           ELSE TryFindTempo(c, trimmed, overflow_checks))

\* 2. module.baseNote.getVariable('varName')
TryBaseRef(c, trimmed, overflow_checks) ==
    Let(match_base_ref(trimmed),
        LAMBDA var_name :
           IF IsPanic(var_name) THEN ParsePanic
           ELSE IF var_name.some THEN emit_base_ref_named(c, var_name.v)
           ELSE TryNoteRef(c, trimmed, overflow_checks))

\* 1. new Fraction(n) or new Fraction(n, d)
TryFractionLiteral(c, trimmed, overflow_checks) ==
    Let(match_fraction_literal(trimmed),
        LAMBDA caps :
           IF caps.some THEN emit_fraction_literal(c, caps.v, overflow_checks)
           ELSE TryBaseRef(c, trimmed, overflow_checks))

parse_and_emit_atomic(c, expr, overflow_checks) ==
    TryFractionLiteral(c, strip_outer_parens(trim(expr)), overflow_checks)

parse_and_emit_product(c, expr, overflow_checks) ==
    Let(try_split_mul_div(trim(expr)),
        LAMBDA split_product :
           IF IsPanic(split_product) THEN ParsePanic
           ELSE IF split_product.some
              THEN EmitProduct(c, split_product.v, overflow_checks)
           ELSE parse_and_emit_atomic(c, trim(expr), overflow_checks))

parse_and_emit(c, expr, overflow_checks) ==
    Let(try_split_add_sub(trim(expr)),
        LAMBDA terms :
           IF IsPanic(terms) THEN ParsePanic
           ELSE IF terms.some /\ Len(terms.v) > 1
              THEN emit_sum(c, terms.v, overflow_checks)
           ELSE parse_and_emit_product(c, trim(expr), overflow_checks))

\* ExpressionCompiler::compile, on a build with or without overflow checks: the
\* CompiledExpression (bytecode, dependencies, references_base) and whether
\* parse_and_emit failed, or a panic
compile(text_expr, overflow_checks) ==
    Let(trim(text_expr),
        LAMBDA trimmed :
           IF trimmed = <<>>
              THEN [res |-> "Ok", c |-> emit_constant(new_compiler, 0, 1), failed |-> FALSE]
           ELSE Let(parse_and_emit(new_compiler, trimmed, overflow_checks),
                    LAMBDA r :
                       IF r.res = "Panic" THEN [res |-> "Panic"]
                       ELSE IF r.res = "Err"
                          THEN [res |-> "Ok", c |-> emit_constant(new_compiler, 0, 1),
                                failed |-> TRUE]
                       ELSE [res |-> "Ok", c |-> r.c, failed |-> FALSE]))

(***************************************************************************)
(* State machine of the dependency graph                                    *)
(***************************************************************************)
TheGraph == Graph(dependencies, dependents, base_note_dependents)

SetGraph(g) ==
    /\ dependencies' = g.dependencies
    /\ dependents' = g.dependents
    /\ base_note_dependents' = g.base_note_dependents

TheEvaluator == Evaluator(cache, bytecode_store, dirty, generation)

SetEvaluator(pe) ==
    /\ cache' = pe.cache
    /\ bytecode_store' = pe.bytecode_store
    /\ dirty' = pe.dirty
    /\ generation' = pe.generation

\* DependencyGraph::new() and PersistentEvaluator::new()
InitObjects ==
    /\ dependencies = EmptyMap
    /\ dependents = EmptyMap
    /\ base_note_dependents = {}
    /\ cache = EmptyMap
    /\ bytecode_store = EmptyMap
    /\ dirty = {}
    /\ generation = 0

InitGraph ==
    /\ InitObjects
    /\ last_call = [op |-> "new"]
    /\ nops = 0

\* addNote inputs: any dependency set; references_base only with no dependency
AddNoteInputs ==
    {in \in [deps : SUBSET NoteIds, references_base : BOOLEAN] :
        in.references_base => in.deps = {}}

\* syncFromJs inputs: lists (ids may repeat) over notes 0 and 1
SyncEntries ==
    {[id |-> i, deps |-> d, references_base |-> FALSE] : i \in {0, 1}, d \in {{}, {0}, {1}}}

SyncLists == SeqsUpTo({e \in SyncEntries : e.deps # {e.id}}, MaxSyncNotes)

AddNote ==
    /\ \E id \in NoteIds, in \in AddNoteInputs :
          SetGraph(update_dependencies(TheGraph, id, in.deps, in.references_base))
    /\ UNCHANGED <<EvalVars, last_call, nops>>

RemoveNote ==
    /\ \E id \in NoteIds : SetGraph(remove_note(TheGraph, id))
    /\ UNCHANGED <<EvalVars, last_call, nops>>

Clear ==
    /\ SetGraph(new_graph)
    /\ UNCHANGED <<EvalVars, last_call, nops>>

SyncFromJs ==
    /\ \E notes \in SyncLists : SetGraph(sync_from_js(notes))
    /\ UNCHANGED <<EvalVars, last_call, nops>>

NextGraph == AddNote \/ RemoveNote \/ Clear \/ SyncFromJs

SpecGraph == InitGraph /\ [][NextGraph]_vars

\* C1: after any sequence of graph mutations, b is in the forward dependency
\* set of a if and only if a is in the inverse dependent set of b.
C1_ForwardInverseAgree ==
    \A a, b \in NoteIds :
        (a \in DOMAIN dependencies /\ b \in dependencies[a])
            <=> (b \in DOMAIN dependents /\ a \in dependents[b])

\* an edge 1 -> 0 recorded on both sides, next to a note that has lost its edges
C1_Witness ==
    /\ 1 \in DOMAIN dependencies /\ dependencies[1] = {0}
    /\ 0 \in DOMAIN dependents /\ dependents[0] = {1}
    /\ 2 \in DOMAIN dependencies /\ dependencies[2] = {}
    /\ 0 \notin DOMAIN dependencies

\* the dependencies of a that lie in S
DepsIn(S, a) == IF a \in DOMAIN dependencies THEN dependencies[a] \cap S ELSE {}

RECURSIVE InducedReach(_, _)
InducedReach(S, F) ==
    LET nxt == F \cup UNION {DepsIn(S, x) : x \in F}
    IN  IF nxt = F THEN F ELSE InducedReach(S, nxt)

InducedAcyclic(S) == \A a \in S : a \notin InducedReach(S, DepsIn(S, a))

IsPermutationOf(seq, S) ==
    /\ Len(seq) = Cardinality(S)
    /\ {seq[i] : i \in 1..Len(seq)} = S

AfterItsDependencies(seq, S) ==
    \A i, j \in 1..Len(seq) : seq[j] \in DepsIn(S, seq[i]) => j < i

\* C2: for every id set S whose induced dependency subgraph is acyclic,
\* getEvaluationOrder(S) is a permutation of S in which every note comes after
\* each member of S it directly depends on.
C2_EvaluationOrderTopological ==
    \A S \in SUBSET NoteIds :
        InducedAcyclic(S) =>
            LET order == get_evaluation_order(TheGraph, S)
            IN  IsPermutationOf(order, S) /\ AfterItsDependencies(order, S)

\* the chain 2 -> 1 -> 0 is ordered 0, 1, 2, also when asked for a subset whose
\* members depend on notes outside it
C2_Witness ==
    /\ DepsIn(NoteIds, 1) = {0} /\ DepsIn(NoteIds, 2) = {1} /\ DepsIn(NoteIds, 0) = {}
    /\ get_evaluation_order(TheGraph, {0, 1, 2}) = <<0, 1, 2>>
    /\ get_evaluation_order(TheGraph, {1, 2}) = <<1, 2>>

\* the notes reached from a by one or more `depends on` steps
ReachedFrom(a) == InducedReach(NoteIds, DepsIn(NoteIds, a))

\* C14: for every graph, cyclic ones included, getAllDependents(id) is the set
\* of notes other than id from which id is reached, and getAllDependencies(id)
\* the set of notes other than id reached from id; id is in neither.
C14_TransitiveClosure ==
    \A id \in 0..(MaxNoteId + 1) :
        /\ get_all_dependents(TheGraph, id) = {n \in NoteIds \ {id} : id \in ReachedFrom(n)}
        /\ get_all_dependencies(TheGraph, id) = ReachedFrom(id) \ {id}

\* notes 0 and 1 depend on each other and note 2 depends on note 1
C14_Witness ==
    /\ dependencies = (0 :> {1}) @@ (1 :> {0}) @@ (2 :> {1})
    /\ get_all_dependents(TheGraph, 0) = {1, 2}
    /\ get_all_dependencies(TheGraph, 2) = {0, 1}
    /\ get_all_dependencies(TheGraph, 0) = {1}

(***************************************************************************)
(* The stack VM as a function of (bytecode, length, cache): the input is    *)
(* drawn by Init, one call evaluates it.                                    *)
(***************************************************************************)
Rat(n) == from_fraction(FractionNew(n, 1))

\* a note with all six variables cached: startTime k, duration k+1, ..., measureLength k+5
FullNote(k) ==
    [start_time |-> Some(Rat(k)), duration |-> Some(Rat(k + 1)),
     frequency |-> Some(Rat(k + 2)), tempo |-> Some(Rat(k + 3)),
     beats_per_measure |-> Some(Rat(k + 4)), measure_length |-> Some(Rat(k + 5)),
     corruption_flags |-> 0]

\* a note with startTime, and a tempo that is an f64 approximation
PartialNote(k) ==
    [DefaultNote EXCEPT !.start_time = Some(Rat(k)),
                        !.tempo = Some(FromF64(F64(k, 2))),
                        !.corruption_flags = corruption_flag_for_var(Tempo)]

VmCaches ==
    {EmptyMap,
     (0 :> FullNote(100)),
     (1 :> FullNote(200)),
     (0 :> FullNote(100)) @@ (1 :> PartialNote(7)),
     (0 :> PartialNote(9)) @@ (1 :> DefaultNote),
     (0 :> FullNote(100)) @@ (1 :> FullNote(200))}

\* programs as the compiler emits them, and malformed ones
LoadRefPrograms ==
    {<<LoadRef>> \o write_u16(id) \o <<v>> : id \in NoteIds \cup {257}, v \in 0..6}

BigConst(sign, num, den) == <<LoadConstBig, sign, 0, 1, num, 0, 1, den>>

VmPrograms ==
    LoadRefPrograms
    \cup {<<LoadBase, v>> : v \in 0..6}
    \cup {emit_constant(new_compiler, 5, 7).bytecode,
          emit_constant(new_compiler, -3, 0).bytecode,
          BigConst(0, 5, 7), BigConst(1, 5, 7), BigConst(0, 5, 0),
          <<LoadConstBig, 0, 0, 2, 1, 0, 0, 1, 3>>,
          <<255>>, <<0>>, <<LoadBase, Tempo, 255>>,
          <<Add>>, <<LoadBase, Tempo, Add>>, <<Neg>>, <<Dup>>, <<Swap>>,
          <<LoadBase, Tempo, Swap>>, <<FindTempo>>, <<FindMeasure>>, <<FindInstrument>>,
          <<LoadBase, Tempo, LoadBase, BeatsPerMeasure, Add>>,
          <<LoadBase, Tempo, LoadBase, BeatsPerMeasure, Sub>>,
          <<LoadBase, Tempo, LoadBase, BeatsPerMeasure, Mul>>,
          <<LoadBase, Tempo, LoadBase, BeatsPerMeasure, Div>>,
          <<LoadBase, Tempo, LoadBase, BeatsPerMeasure, Swap, Sub>>,
          <<LoadBase, Frequency, LoadBase, StartTime, Div>>,
          <<LoadBase, Tempo, Neg>>, <<LoadBase, Tempo, Dup, Mul>>,
          emit_op(emit_constant(emit_constant(new_compiler, 2, 1), 1, 2), Pow).bytecode,
          <<LoadBase, StartTime, FindTempo>>, <<LoadBase, Duration, FindMeasure>>,
          <<LoadBase, StartTime, FindInstrument>>,
          <<LoadBase, Tempo, LoadBase, BeatsPerMeasure>>}

\* a buffer is any prefix of a program
VmBuffers == UNION {{SubSeq(b, 1, k) : k \in 0..Len(b)} : b \in VmPrograms}

VmInputs ==
    UNION {{[op |-> "input", bytecode |-> b, length |-> l] : l \in 0..(Len(b) + MaxOverrun)} :
              b \in VmBuffers}

InitVM ==
    /\ dependencies = EmptyMap /\ dependents = EmptyMap /\ base_note_dependents = {}
    /\ bytecode_store = EmptyMap /\ dirty = {} /\ generation = 0
    /\ \E c \in VmCaches, in \in VmInputs :
          /\ cache = c
          /\ last_call = in
    /\ nops = 0

Returned(in, name, r) ==
    [op |-> name, bytecode |-> in.bytecode, length |-> in.length, result |-> r]

\* Evaluator::evaluate(bytecode, length, &cache)
VmEvaluate ==
    /\ last_call.op = "input"
    /\ last_call' = Returned(last_call, "evaluate",
                             evaluate(last_call.bytecode, last_call.length, cache))
    /\ nops' = nops + 1
    /\ UNCHANGED <<GraphVars, EvalVars>>

\* PersistentEvaluator::evaluate_with_cache(bytecode, length) on its own cache
VmEvaluateWithCache ==
    /\ last_call.op = "input"
    /\ last_call' = Returned(last_call, "evaluate_with_cache",
                             evaluate_with_cache(last_call.bytecode, last_call.length, cache))
    /\ nops' = nops + 1
    /\ UNCHANGED <<GraphVars, EvalVars>>

NextVM == VmEvaluate \/ VmEvaluateWithCache

SpecVM == InitVM /\ [][NextVM]_vars

VmReturned == last_call.op \in {"evaluate", "evaluate_with_cache"}

\* the call evaluated exactly one LOAD_REF instruction with a valid variable index
IsLoadRefCall ==
    /\ VmReturned
    /\ Len(last_call.bytecode) = 4 /\ last_call.length = 4
    /\ last_call.bytecode[1] = LoadRef /\ last_call.bytecode[4] < 6

C8_RefId == last_call.bytecode[2] * 256 + last_call.bytecode[3]

C8_RefVar == last_call.bytecode[4]

C8_Cached(id, v) == IF id \in DOMAIN cache THEN get_var(cache[id], v) ELSE None

C8_Default(v) ==
    CASE v = 0 -> 0 [] v = 1 -> 1 [] v = 2 -> 440 [] v = 3 -> 60 [] v = 4 -> 4 [] v = 5 -> 4

C8_Expected(id, v) ==
    IF C8_Cached(id, v).some THEN to_value(C8_Cached(id, v).v)
    ELSE IF v \in {3, 4, 5} /\ C8_Cached(0, v).some THEN to_value(C8_Cached(0, v).v)
    ELSE [kind |-> "Rational", frac |-> [num |-> C8_Default(v), den |-> 1]]

\* C8: LOAD_REF pushes the referenced note's cached value when present; else,
\* for tempo, beatsPerMeasure and measureLength only, the base note's cached
\* value when present; else the default 0, 1, 440, 60, 4, 4.
C8_LoadRefInheritance ==
    IsLoadRefCall =>
        /\ last_call.result.tag = "Ok"
        /\ last_call.result.value = C8_Expected(C8_RefId, C8_RefVar)

\* note 1 has no measureLength and no frequency cached, the base note has both:
\* measureLength came from the base note
C8_Witness ==
    /\ IsLoadRefCall /\ C8_RefId = 1 /\ C8_RefVar = MeasureLength
    /\ 1 \in DOMAIN cache /\ ~cache[1].measure_length.some
    /\ 0 \in DOMAIN cache /\ cache[0].measure_length.some /\ cache[0].frequency.some
    /\ last_call.result.value = to_value(cache[0].measure_length.v)

\* the first instruction's operands as encoded: where LOAD_CONST_BIG's
\* length-prefixed numerator and denominator end (at least 6 bytes are needed)
C10_BigEnd(b) ==
    IF Len(b) < 4 THEN 6
    ELSE LET nl == b[3] * 256 + b[4]
         IN  IF Len(b) < 6 + nl THEN 6 + nl
             ELSE 6 + nl + b[5 + nl] * 256 + b[6 + nl]

\* the first instruction has an unknown opcode, a variable index of 6 or more,
\* or operands that extend past the declared length L
C10_Malformed ==
    LET b == last_call.bytecode
        L == last_call.length
    IN  /\ L > 0
        /\ \/ b[1] \notin Ops
           \/ b[1] = LoadConst /\ 9 > L
           \/ b[1] = LoadRef /\ (4 > L \/ b[4] >= 6)
           \/ b[1] = LoadBase /\ (2 > L \/ b[2] >= 6)
           \/ b[1] = LoadConstBig /\ C10_BigEnd(b) > L

\* C10: with a declared length L that lies within the buffer, evaluation
\* returns an error (never a value, never a crash) when an opcode is unknown,
\* a variable index is 6 or more or operands extend past L, and it never
\* reads a byte at an offset >= L.
C10_MalformedIsError ==
    (VmReturned /\ last_call.length <= Len(last_call.bytecode)) =>
        /\ C10_Malformed => last_call.result.tag = "Err"
        /\ last_call.result.tag # "Panic"
        /\ last_call.result.hi < last_call.length

(***************************************************************************)
(* Queries on a synced graph whose answer is computed by iterating hash     *)
(* containers: the iteration orders are chosen by the run.                  *)
(***************************************************************************)
\* most edges of a synced graph
MaxCycleEdges == 4

EdgeSets == {E \in SUBSET (NoteIds \X NoteIds) : Cardinality(E) <= MaxCycleEdges}

\* syncFromJs of every note with its dependencies
EdgeNotes(E) ==
    [i \in 1..Cardinality(NoteIds) |->
        [id |-> i - 1, deps |-> {e[2] : e \in {x \in E : x[1] = i - 1}},
         references_base |-> FALSE]]

\* the orders in which a run may iterate a hash container over the ids
IterationOrders ==
    {p \in [1..Cardinality(NoteIds) -> NoteIds] : \A i, j \in DOMAIN p : p[i] = p[j] => i = j}

InitCycles ==
    /\ \E E \in EdgeSets : \E g \in {sync_from_js(EdgeNotes(E))} :
          /\ dependencies = g.dependencies
          /\ dependents = g.dependents
          /\ base_note_dependents = g.base_note_dependents
    /\ cache = EmptyMap /\ bytecode_store = EmptyMap /\ dirty = {} /\ generation = 0
    /\ last_call = [op |-> "new"]
    /\ nops = 0

\* detectCycles()
DetectCycles ==
    /\ last_call.op = "new"
    /\ \E keys_iter \in IterationOrders, deps_iter \in IterationOrders :
          last_call' = [op |-> "detectCycles",
                        cycles |-> detect_cycles(TheGraph, keys_iter, deps_iter)]
    /\ nops' = nops + 1
    /\ UNCHANGED <<GraphVars, EvalVars>>

NextCycles == DetectCycles

SpecCycles == InitCycles /\ [][NextCycles]_vars

\* C15: detectCycles() reports something exactly when some note is reached
\* from itself along `depends on` edges (a self-loop included), and every
\* reported list starts and ends with the same id and follows existing edges.
C15_CyclesDetected ==
    last_call.op = "detectCycles" =>
        /\ (last_call.cycles # <<>>) <=> (\E a \in NoteIds : a \in ReachedFrom(a))
        /\ \A k \in DOMAIN last_call.cycles :
              LET cycle == last_call.cycles[k]
              IN  /\ Len(cycle) >= 2
                  /\ cycle[1] = cycle[Len(cycle)]
                  /\ \A i \in 1..(Len(cycle) - 1) :
                        /\ cycle[i] \in DOMAIN dependencies
                        /\ cycle[i + 1] \in dependencies[cycle[i]]

\* a cycle through three notes and a self-loop are both reported
C15_Witness ==
    /\ last_call.op = "detectCycles"
    /\ \E k \in DOMAIN last_call.cycles : Len(last_call.cycles[k]) = 4
    /\ \E k \in DOMAIN last_call.cycles : Len(last_call.cycles[k]) = 2

\* a synced graph of which the notes in B reference the base note
InitRemove ==
    /\ \E E \in EdgeSets, B \in SUBSET NoteIds :
          \E g \in {sync_from_js([i \in DOMAIN EdgeNotes(E) |->
                                     [EdgeNotes(E)[i] EXCEPT !.references_base = (i - 1 \in B)]])} :
              /\ dependencies = g.dependencies
              /\ dependents = g.dependents
              /\ base_note_dependents = g.base_note_dependents
    /\ cache = EmptyMap /\ bytecode_store = EmptyMap /\ dirty = {} /\ generation = 0
    /\ last_call = [op |-> "new"]
    /\ nops = 0

\* the `depends on` edges of a forward map, and the edges of an inverse map
Edges(fwd) == {<<a, b>> \in (DOMAIN fwd) \X (0..(MaxNoteId + 1)) : b \in fwd[a]}

\* removeNote(id), of a note of the graph or of an id it never saw
RemoveNoteCall ==
    /\ last_call.op = "new"
    /\ \E id \in 0..(MaxNoteId + 1) :
          /\ SetGraph(remove_note(TheGraph, id))
          /\ last_call' = [op |-> "removeNote", note_id |-> id,
                           incident |-> Cardinality({e \in Edges(dependencies) :
                                                        e[1] = id \/ e[2] = id})]
    /\ nops' = nops + 1
    /\ UNCHANGED EvalVars

NextRemove == RemoveNoteCall

SpecRemove == InitRemove /\ [][NextRemove]_vars

\* C16: after removeNote(id), id has no forward entry, is in no dependency set
\* and no dependent set, has no dependent entry and is not in the base-note
\* set; the edges not incident to id, in both directions, and the other
\* notes' forward entries and base membership are as before.
C16_RemoveNoteFrame ==
    [][last_call'.op = "removeNote" =>
         LET id == last_call'.note_id
         IN  /\ id \notin DOMAIN dependencies'
             /\ id \notin DOMAIN dependents'
             /\ \A n \in DOMAIN dependencies' : id \notin dependencies'[n]
             /\ \A n \in DOMAIN dependents' : id \notin dependents'[n]
             /\ id \notin base_note_dependents'
             /\ DOMAIN dependencies' = DOMAIN dependencies \ {id}
             /\ Edges(dependencies') = {e \in Edges(dependencies) : e[1] # id /\ e[2] # id}
             /\ Edges(dependents') = {e \in Edges(dependents) : e[1] # id /\ e[2] # id}
             /\ base_note_dependents' \ {id} = base_note_dependents \ {id}]_vars

\* note 1 had edges and was removed; an edge between other notes and another
\* note's base membership are still there
C16_Witness ==
    /\ last_call.op = "removeNote"
    /\ last_call.note_id = 1
    /\ last_call.incident >= 2
    /\ Edges(dependencies) # {}
    /\ base_note_dependents # {}

\* most edges of a graph asked for an evaluation order
MaxOrderEdges == 2

\* the id sets asked for: every note, or every note but one
AskedSets == {NoteIds} \cup {NoteIds \ {i} : i \in NoteIds}

InitOrder ==
    /\ \E E \in {X \in EdgeSets : Cardinality(X) <= MaxOrderEdges} :
          \E g \in {sync_from_js(EdgeNotes(E))} :
              /\ dependencies = g.dependencies
              /\ dependents = g.dependents
              /\ base_note_dependents = g.base_note_dependents
    /\ cache = EmptyMap /\ bytecode_store = EmptyMap /\ dirty = {} /\ generation = 0
    /\ last_call = [op |-> "new"]
    /\ nops = 0

\* getEvaluationOrder(note_ids)
GetEvaluationOrder ==
    /\ last_call.op = "new"
    /\ \E S \in AskedSets, map_iter \in IterationOrders, set_iter \in IterationOrders :
          last_call' = [op |-> "getEvaluationOrder", note_ids |-> S,
                        order |-> get_evaluation_order_in(TheGraph, S, map_iter, set_iter)]
    /\ nops' = nops + 1
    /\ UNCHANGED <<GraphVars, EvalVars>>

NextOrder == GetEvaluationOrder

SpecOrder == InitOrder /\ [][NextOrder]_vars

\* the note at position j had every dependency inside S emitted before position i
C17_ReadyAt(order, S, i, j) ==
    \A d \in DepsIn(S, order[j]) : \E k \in 1..(i - 1) : order[k] = d

\* C17: of two notes that are ready at the same time, getEvaluationOrder emits
\* the one with the smaller id first; notes without dependencies among them
\* come out in ascending id order.
C17_TiesAscending ==
    last_call.op = "getEvaluationOrder" =>
        \A i, j \in 1..Len(last_call.order) :
            (i < j /\ C17_ReadyAt(last_call.order, last_call.note_ids, i, j))
                => last_call.order[i] < last_call.order[j]

\* C18: the sequence getEvaluationOrder returned is the one it returns under
\* every other iteration order of its hash containers: it is a function of
\* the edge sets and the id set alone.
C18_OrderDeterministic ==
    last_call.op = "getEvaluationOrder" =>
        /\ \A map_iter \in IterationOrders, set_iter \in IterationOrders :
              get_evaluation_order_in(TheGraph, last_call.note_ids, map_iter, set_iter)
                  = last_call.order
        /\ last_call.order = get_evaluation_order(TheGraph, last_call.note_ids)

\* two notes became ready together when the note they both depend on was emitted
C18_Witness ==
    /\ last_call.op = "getEvaluationOrder"
    /\ dependencies = (0 :> {}) @@ (1 :> {0}) @@ (2 :> {0})
    /\ last_call.note_ids = {0, 1, 2}
    /\ Len(last_call.order) = 3

\* the members of S that lie on a dependency cycle inside S
OnCycleIn(S) == {a \in S : a \in InducedReach(S, DepsIn(S, a))}

\* the members of S that are on such a cycle or depend on one inside S
BlockedIn(S) == {a \in S : InducedReach(S, {a}) \cap OnCycleIn(S) # {}}

\* C35: in any graph, cyclic or not, getEvaluationOrder(S) lists no id twice
\* and only ids of S; it lists exactly the members of S that are neither on
\* a dependency cycle inside S nor dependent, inside S, on such a cycle; its
\* length is |S| if and only if the subgraph induced by S is acyclic.
C35_OrderOmitsCycles ==
    last_call.op = "getEvaluationOrder" =>
        /\ \A i, j \in 1..Len(last_call.order) :
              last_call.order[i] = last_call.order[j] => i = j
        /\ {last_call.order[i] : i \in 1..Len(last_call.order)}
              = last_call.note_ids \ BlockedIn(last_call.note_ids)
        /\ (Len(last_call.order) = Cardinality(last_call.note_ids))
              <=> InducedAcyclic(last_call.note_ids)

\* note 0 depends on itself and note 1 on note 0: only note 2 is ordered
C35_Witness ==
    /\ last_call.op = "getEvaluationOrder"
    /\ dependencies = (0 :> {0}) @@ (1 :> {0}) @@ (2 :> {})
    /\ last_call.note_ids = {0, 1, 2}
    /\ last_call.order = <<2>>

(***************************************************************************)
(* Division, applied to values of every variant.                            *)
(***************************************************************************)
\* largest numerator of a division operand
MaxDivNum == 2

DivFractions == {FractionNew(n, d) : n \in (-MaxDivNum)..MaxDivNum, d \in 1..2}

\* 2^(1/2), 3^(1/2), and rational multiples of 2^(1/2)
DivSymbolics ==
    {ValuePow(ValueRational(b, 1), ValueRational(1, 2)) : b \in {2, 3}}
    \cup {ValueMul(Rational(c), ValuePow(ValueRational(2, 1), ValueRational(1, 2))) :
             c \in DivFractions}

DivValues ==
    {Rational(x) : x \in DivFractions}
    \cup {Irrational(F64OfFraction(x)) : x \in DivFractions}
    \cup {Irrational(F64Unknown)}
    \cup DivSymbolics

InitDiv ==
    /\ InitObjects
    /\ \E a \in DivValues, b \in DivValues : last_call = [op |-> "input", a |-> a, b |-> b]
    /\ nops = 0

DivReturned(name, r) == [op |-> name, a |-> last_call.a, b |-> last_call.b, result |-> r]

\* Value::div
ValueDivCall ==
    /\ last_call.op = "input"
    /\ last_call' = DivReturned("Value.div", ValueDiv(last_call.a, last_call.b))
    /\ nops' = nops + 1
    /\ UNCHANGED <<GraphVars, EvalVars>>

\* Fraction::div
FractionDivCall ==
    /\ last_call.op = "input"
    /\ last_call.a.kind = "Rational" /\ last_call.b.kind = "Rational"
    /\ last_call' = DivReturned("Fraction.div",
                                [panic |-> FALSE,
                                 value |-> FractionDiv(last_call.a.frac, last_call.b.frac)])
    /\ nops' = nops + 1
    /\ UNCHANGED <<GraphVars, EvalVars>>

\* a / b on Fractions
FractionDivOperatorCall ==
    /\ last_call.op = "input"
    /\ last_call.a.kind = "Rational" /\ last_call.b.kind = "Rational"
    /\ last_call' = DivReturned("Fraction./",
                                FractionDivOperator(last_call.a.frac, last_call.b.frac))
    /\ nops' = nops + 1
    /\ UNCHANGED <<GraphVars, EvalVars>>

NextDiv == ValueDivCall \/ FractionDivCall \/ FractionDivOperatorCall

SpecDiv == InitDiv /\ [][NextDiv]_vars

\* the value is zero: a zero fraction, the float 0.0, or a zero coefficient
C20_IsZero(v) ==
    CASE v.kind = "Rational" -> v.frac.num = 0
      [] v.kind = "Irrational" -> v.f.known /\ v.f.num = 0
      [] v.kind = "Symbolic" -> v.coefficient.num = 0

\* C20: a division whose divisor is zero returns one and never fails:
\* Value.div gives Rational 1 for a dividend of any variant, Fraction.div and
\* the Fraction `/` operator give 1/1.
C20_DivisionByZeroIsOne ==
    (last_call.op \in {"Value.div", "Fraction.div", "Fraction./"} /\ C20_IsZero(last_call.b)) =>
        IF last_call.op = "Value.div"
        THEN last_call.result = Rational([num |-> 1, den |-> 1])
        ELSE ~last_call.result.panic /\ last_call.result.value = [num |-> 1, den |-> 1]

(***************************************************************************)
(* The four binary operations of Value, applied to operands of every        *)
(* variant.                                                                 *)
(***************************************************************************)
ValueAddCall ==
    /\ last_call.op = "input"
    /\ last_call' = DivReturned("Value.add", ValueAdd(last_call.a, last_call.b))
    /\ nops' = nops + 1
    /\ UNCHANGED <<GraphVars, EvalVars>>

ValueSubCall ==
    /\ last_call.op = "input"
    /\ last_call' = DivReturned("Value.sub", ValueSub(last_call.a, last_call.b))
    /\ nops' = nops + 1
    /\ UNCHANGED <<GraphVars, EvalVars>>

ValueMulCall ==
    /\ last_call.op = "input"
    /\ last_call' = DivReturned("Value.mul", ValueMul(last_call.a, last_call.b))
    /\ nops' = nops + 1
    /\ UNCHANGED <<GraphVars, EvalVars>>

NextAlgebra == ValueAddCall \/ ValueSubCall \/ ValueMulCall \/ ValueDivCall

SpecAlgebra == InitDiv /\ [][NextAlgebra]_vars

C21_Kinds == {last_call.a.kind, last_call.b.kind}

\* Symbolic, or Rational: a Symbolic result keeps a non-integer exponent
C21_SymbolicOrFolded(r) ==
    \/ r.kind = "Rational"
    \/ r.kind = "Symbolic" /\ \E i \in DOMAIN r.powers : FractionD(r.powers[i].exponent) # 1

\* the table shared by both statements: add and sub, mul, and div without an
\* Irrational operand
C21_TableCommon ==
    /\ last_call.op \in {"Value.add", "Value.sub"} =>
          last_call.result.kind = IF C21_Kinds = {"Rational"} THEN "Rational" ELSE "Irrational"
    /\ (last_call.op \in {"Value.mul", "Value.div"} /\ C21_Kinds = {"Rational"}) =>
          last_call.result.kind = "Rational"
    /\ (last_call.op = "Value.mul" /\ "Irrational" \in C21_Kinds) =>
          last_call.result.kind = "Irrational"
    /\ (last_call.op = "Value.mul" /\ "Symbolic" \in C21_Kinds /\ "Irrational" \notin C21_Kinds) =>
          C21_SymbolicOrFolded(last_call.result)
    /\ (/\ last_call.op = "Value.div" /\ "Symbolic" \in C21_Kinds
        /\ "Irrational" \notin C21_Kinds /\ ~C20_IsZero(last_call.b)) =>
          C21_SymbolicOrFolded(last_call.result)

MaxSymOps == 3

SymInputs == {ValueRational(n, d) : <<n, d>> \in {<<2, 1>>, <<3, 1>>, <<5, 1>>, <<1, 2>>, <<-2, 1>>}}

SymExponents == {ValueRational(n, d) : <<n, d>> \in {<<1, 2>>, <<1, 3>>, <<-1, 2>>}}

InitSym ==
    /\ InitObjects
    /\ \E a \in SymInputs, b \in SymInputs : last_call = [op |-> "input", a |-> a, b |-> b]
    /\ nops = 0

\* the result r of operation `name` replaces the value in slot t
SymStep(name, t, r) ==
    /\ nops < MaxSymOps
    /\ last_call' = [op |-> name, t |-> t,
                     a |-> IF t = "a" THEN r ELSE last_call.a,
                     b |-> IF t = "b" THEN r ELSE last_call.b]
    /\ nops' = nops + 1
    /\ UNCHANGED <<GraphVars, EvalVars>>

SymTarget(t) == IF t = "a" THEN last_call.a ELSE last_call.b

SymOther(t) == IF t = "a" THEN last_call.b ELSE last_call.a

ValuePowStep ==
    \E t \in {"a", "b"}, e \in SymExponents :
        \E r \in {ValuePow(SymTarget(t), e)} : SymStep("Value.pow", t, r)

ValueMulStep ==
    \E t \in {"a", "b"} :
        \E r \in {ValueMul(SymTarget(t), SymOther(t))} : SymStep("Value.mul", t, r)

ValueDivStep ==
    \E t \in {"a", "b"} :
        \E r \in {ValueDiv(SymTarget(t), SymOther(t))} : SymStep("Value.div", t, r)

ValueNegStep ==
    \E t \in {"a", "b"} :
        \E r \in {ValueNeg(SymTarget(t))} : SymStep("Value.neg", t, r)

ValueAbsStep ==
    \E t \in {"a", "b"} :
        \E r \in {ValueAbs(SymTarget(t))} : SymStep("Value.abs", t, r)

ValueInverseStep ==
    \E t \in {"a", "b"} :
        \E r \in {ValueInverse(SymTarget(t))} : SymStep("Value.inverse", t, r)

NextSym ==
    \/ ValuePowStep
    \/ ValueMulStep
    \/ ValueDivStep
    \/ ValueNegStep
    \/ ValueAbsStep
    \/ ValueInverseStep

SpecSym == InitSym /\ [][NextSym]_vars

\* the orders in which a hash map can hand over the terms of `powers`
C22_Orders(powers) ==
    {[i \in 1..Len(powers) |-> powers[q[i]]] :
        q \in {f \in [1..Len(powers) -> 1..Len(powers)] :
                  \A i, j \in 1..Len(powers) : f[i] = f[j] => i = j}}

C22_Canonical(v) ==
    v.kind = "Symbolic" =>
        /\ \A i \in 1..Len(v.powers) :
              /\ v.powers[i].base >= 2
              /\ v.powers[i].exponent.num # 0
        /\ \A i, j \in 1..Len(v.powers) : i < j => v.powers[i].base < v.powers[j].base
        /\ \A q \in C22_Orders(v.powers) : SymNormalize(v.coefficient, q) = v

\* C22: every Symbolic value reached from rational inputs by pow, mul, div,
\* neg, abs and inverse has integer bases of at least 2, no exponent 0, no
\* base twice, and its terms by ascending base (bases strictly ascending),
\* whatever the order in which the hash map of mul and div hands over the terms.
C22_SymbolicCanonical == C22_Canonical(last_call.a) /\ C22_Canonical(last_call.b)

\* a product of different bases: 2^(1/2) * 3^(1/2) and the like
C22_Witness ==
    /\ last_call.op \in {"Value.mul", "Value.div"}
    /\ SymTarget(last_call.t).kind = "Symbolic"
    /\ Len(SymTarget(last_call.t).powers) >= 2

(***************************************************************************)
(* Symbolic mul, div and pow whose result folds back to a Rational:         *)
(* last_call holds the operands and the result of the call; a product that  *)
(* is still Symbolic can be multiplied by the same factor again.            *)
(***************************************************************************)
\* factors of one product
MaxFactors == 12

FoldRationals == {ValueRational(n, d) : <<n, d>> \in {<<2, 1>>, <<3, 1>>, <<1, 2>>}}

\* 2^(1/12), 2^(-1/12), 2^(11/12), 2^(1/2), 3^(1/2)
FoldUnitSymbolics ==
    {ValuePow(ValueRational(2, 1), ValueRational(n, d)) :
        <<n, d>> \in {<<1, 12>>, <<-1, 12>>, <<11, 12>>, <<1, 2>>}}
    \cup {ValuePow(ValueRational(3, 1), ValueRational(1, 2))}

\* 3 * 2^(1/2), (1/2) * 2^(1/2), -(3^(1/2))
FoldSymbolics ==
    FoldUnitSymbolics
    \cup {ValueMul(ValueRational(3, 1), ValuePow(ValueRational(2, 1), ValueRational(1, 2))),
          ValueMul(ValueRational(1, 2), ValuePow(ValueRational(2, 1), ValueRational(1, 2))),
          ValueNeg(ValuePow(ValueRational(3, 1), ValueRational(1, 2)))}

\* exponents of pow: the large ones for a coefficient of 1 only
FoldExponents(a) ==
    {ValueRational(n, d) : <<n, d>> \in {<<2, 1>>, <<-2, 1>>, <<1, 2>>}}
    \cup (IF a \in FoldUnitSymbolics
             THEN {ValueRational(n, 1) : n \in {12, 64, -64}}
             ELSE {})

InitFold ==
    /\ InitObjects
    /\ \E a \in FoldSymbolics, b \in FoldSymbolics \cup FoldRationals :
          last_call = [op |-> "input", a |-> a, b |-> b]
    /\ nops = 0

FoldReturned(name, a, b, r) ==
    /\ last_call' = [op |-> name, a |-> a, b |-> b, result |-> r]
    /\ nops' = nops + 1
    /\ UNCHANGED <<GraphVars, EvalVars>>

FoldMulCall ==
    /\ last_call.op = "input"
    /\ \E r \in {ValueMul(last_call.a, last_call.b)} :
          FoldReturned("Value.mul", last_call.a, last_call.b, r)

\* one more factor b on a product that is still Symbolic
FoldMulAgain ==
    /\ last_call.op = "Value.mul"
    /\ last_call.result.kind = "Symbolic"
    /\ nops + 2 <= MaxFactors
    /\ \E r \in {ValueMul(last_call.result, last_call.b)} :
          FoldReturned("Value.mul", last_call.result, last_call.b, r)

FoldDivCall ==
    /\ last_call.op = "input"
    /\ \E r \in {ValueDiv(last_call.a, last_call.b)} :
          FoldReturned("Value.div", last_call.a, last_call.b, r)

FoldPowCall ==
    /\ last_call.op = "input"
    /\ \E e \in FoldExponents(last_call.a) :
          \E r \in {ValuePow(last_call.a, e)} : FoldReturned("Value.pow", last_call.a, e, r)

NextFold == FoldMulCall \/ FoldMulAgain \/ FoldDivCall \/ FoldPowCall

SpecFold == InitFold /\ [][NextFold]_vars

\* the SymbolicPower the call builds before it looks at the exponents
C23_Product ==
    LET a == last_call.a
        b == last_call.b
    IN  CASE last_call.op = "Value.pow" -> SymPow(a, b.frac)
          [] last_call.op = "Value.mul" /\ b.kind = "Symbolic" -> SymMul(a, b)
          [] last_call.op = "Value.mul" /\ b.kind = "Rational" -> SymMulRational(a, b.frac)
          [] last_call.op = "Value.div" /\ b.kind = "Symbolic" -> SymDiv(a, b)
          [] last_call.op = "Value.div" /\ b.kind = "Rational" ->
                SymMulRational(a, FractionInverse(b.frac))

\* the exponent of the prime q in n, and n without its factors q (0 for n = 0)
RECURSIVE C23_Valuation(_, _)
C23_Valuation(n, q) == IF n # 0 /\ n % q = 0 THEN 1 + C23_Valuation(n \div q, q) ELSE 0

RECURSIVE C23_Without(_, _)
C23_Without(n, q) == IF n # 0 /\ n % q = 0 THEN C23_Without(n \div q, q) ELSE n

\* the primes of the bases 2 and 3
C23_Primes == {2, 3}

RECURSIVE C23_TermsValuation(_, _)
C23_TermsValuation(powers, q) ==
    IF powers = <<>> THEN 0
    ELSE Head(powers).exponent.num * C23_Valuation(Head(powers).base, q)
         + C23_TermsValuation(Tail(powers), q)

\* frac = coefficient * product of base^exponent, in arbitrary precision: the
\* same sign, the same exponent of 2 and of 3, and the same rest
C23_Exact(frac, sp) ==
    IF sp.coefficient.num = 0 THEN frac.num = 0
    ELSE /\ FractionS(frac) = FractionS(sp.coefficient)
         /\ \A q \in C23_Primes :
               C23_Valuation(Abs(frac.num), q) - C23_Valuation(frac.den, q)
                  = C23_Valuation(Abs(sp.coefficient.num), q)
                    - C23_Valuation(sp.coefficient.den, q)
                    + C23_TermsValuation(sp.powers, q)
         /\ C23_Without(C23_Without(Abs(frac.num), 2), 3)
               = C23_Without(C23_Without(Abs(sp.coefficient.num), 2), 3)
         /\ C23_Without(C23_Without(frac.den, 2), 3)
               = C23_Without(C23_Without(sp.coefficient.den, 2), 3)

C23_Folds == last_call.op # "input" /\ SymIsRational(C23_Product.powers)

\* C23: when the result of a symbolic mul, div or pow has only integer
\* exponents, the call returns a Rational that equals coefficient times the
\* product of base^exponent exactly, also when a power exceeds 32 bits.
C23_FoldedExactly ==
    C23_Folds =>
        /\ last_call.result.kind = "Rational"
        /\ C23_Exact(last_call.result.frac, C23_Product)

(***************************************************************************)
(* One evaluation, one loop iteration at a time: last_call holds the        *)
(* bytecode, pc and the VM stack while the loop runs, and the result after. *)
(***************************************************************************)
\* pushes a program attempts beyond max_stack_size
MaxExtra == 2

Rep(op, k) == [i \in 1..k |-> op]

\* LOAD_BASE tempo, then DUP until the stack holds max_stack_size + extra values
DupFill(extra) == <<LoadBase, Tempo>> \o Rep(Dup, max_stack_size - 1 + extra)

\* max_stack_size + extra times LOAD_BASE tempo
LoadFill(extra) ==
    [i \in 1..(2 * (max_stack_size + extra)) |-> IF i % 2 = 1 THEN LoadBase ELSE Tempo]

PoppingOps == {Add, Sub, Mul, Div, Pow, Neg, Swap, FindTempo, FindMeasure, FindInstrument}

StackPrograms ==
    {DupFill(e) : e \in 0..MaxExtra}
    \cup {LoadFill(e) : e \in 1..MaxExtra}
    \cup {DupFill(0) \o Rep(Add, max_stack_size - 1),
          DupFill(0) \o <<Swap, Neg, FindTempo, LoadRef, 0, 0, Tempo>>,
          DupFill(0) \o <<Add, Dup, LoadConst>> \o write_i32(1) \o write_i32(2)}
    \cup {<<op>> : op \in PoppingOps \cup {Dup}}
    \cup {<<LoadBase, Tempo, op>> : op \in PoppingOps}
    \cup {<<LoadBase, Tempo, Dup, op, op>> : op \in PoppingOps \ {Pow}}
    \cup {<<>>}

InitStack ==
    /\ dependencies = EmptyMap /\ dependents = EmptyMap /\ base_note_dependents = {}
    /\ bytecode_store = EmptyMap /\ dirty = {} /\ generation = 0
    /\ cache \in {EmptyMap, (0 :> FullNote(100))}
    /\ \E b \in StackPrograms :
          last_call = [op |-> "input", bytecode |-> b, length |-> Len(b)]
    /\ nops = 0

Running(in, pc, stack, hi) ==
    [op |-> "run", bytecode |-> in.bytecode, length |-> in.length,
     pc |-> pc, stack |-> stack, hi |-> hi]

\* entry of evaluate_with_cache: the stack is cleared, a zero length returns Ok(0)
StackBegin ==
    /\ last_call.op = "input"
    /\ last_call' = IF last_call.length = 0
                       THEN Returned(last_call, "evaluate_with_cache",
                                     VmOk(ValueRational(0, 1), -1))
                       ELSE Running(last_call, 0, <<>>, -1)
    /\ UNCHANGED <<GraphVars, EvalVars, nops>>

\* one iteration of the loop
StackStep ==
    /\ last_call.op = "run"
    /\ last_call.pc < last_call.length
    /\ \E s \in {DecodeStep(last_call.bytecode, last_call.length, cache,
                            last_call.pc, last_call.stack, last_call.hi)} :
          last_call' = IF s.tag = "Run"
                          THEN Running(last_call, s.pc, s.stack, s.hi)
                          ELSE Returned(last_call, "evaluate_with_cache", s)
    /\ UNCHANGED <<GraphVars, EvalVars, nops>>

\* the loop is over: the result is popped
StackReturn ==
    /\ last_call.op = "run"
    /\ last_call.pc >= last_call.length
    /\ last_call' = Returned(last_call, "evaluate_with_cache",
                             LoopExit(last_call.stack, last_call.hi))
    /\ UNCHANGED <<GraphVars, EvalVars, nops>>

NextStack == StackBegin \/ StackStep \/ StackReturn

SpecStack == InitStack /\ [][NextStack]_vars

\* the opcode the next iteration decodes
StackOp == last_call.bytecode[last_call.pc + 1]

StackAtOp == last_call.op = "run" /\ last_call.pc < last_call.length

StackResultIs(kind) ==
    /\ last_call'.op = "evaluate_with_cache"
    /\ last_call'.result.tag = "Err"
    /\ last_call'.result.err = kind

\* C11: the VM stack never holds more than 1024 values; an opcode that pushes
\* onto a full stack ends the evaluation with the stack-overflow error, and an
\* opcode that pops more values than the stack holds ends it with the
\* stack-underflow error.
C11_StackBounded ==
    [][/\ last_call'.op = "run" => Len(last_call'.stack) <= 1024
       /\ (/\ StackAtOp
           /\ StackOp \in {LoadConst, LoadRef, LoadBase, Dup}
           /\ Len(last_call.stack) = 1024) => StackResultIs("overflow")
       /\ (/\ StackAtOp
           /\ StackOp \in PoppingOps
           /\ last_call.stack = <<>>) => StackResultIs("underflow")]_vars

\* a full stack was pushed onto and the evaluation returned the overflow error
C11_Witness ==
    /\ last_call.op = "evaluate_with_cache"
    /\ last_call.result.tag = "Err"
    /\ last_call.result.err = "overflow"
    /\ Len(last_call.bytecode) > 1024

(***************************************************************************)
(* The PersistentEvaluator as a state machine: the host registers bytecode, *)
(* marks, invalidates, removes, evaluates and imports, in any order.        *)
(***************************************************************************)
\* largest note id the host registers; MaxEvalId + 1 is never registered
MaxEvalId == 1

EvalIds == 0..MaxEvalId

CallIds == 0..(MaxEvalId + 1)

\* calls made on a prepared evaluator
MaxOps == 1

\* expressions as the compiler emits them
ConstExpr(num, den) ==
    LET c == emit_constant(new_compiler, num, den) IN Expr(c.bytecode, Len(c.bytecode))

BaseRefExpr(var) ==
    LET c == emit_base_ref(new_compiler, var) IN Expr(c.bytecode, Len(c.bytecode))

NoteRefExpr(id, var) ==
    LET c == emit_note_ref(new_compiler, id, var) IN Expr(c.bytecode, Len(c.bytecode))

\* 2^(1/2)
Sqrt2Expr ==
    LET c == emit_op(emit_constant(emit_constant(new_compiler, 2, 1), 1, 2), Pow)
    IN  Expr(c.bytecode, Len(c.bytecode))

\* an expression whose evaluation fails: one unknown opcode
BadExpr == Expr(<<255>>, 1)

\* JsExpressions: one optional expression per variable
NoExprs == [v \in Vars |-> None]

With(exprs, var, e) == [exprs EXCEPT ![var] = Some(e)]

NoteProfiles ==
    {With(NoExprs, StartTime, ConstExpr(0, 1)),
     With(With(NoExprs, StartTime, ConstExpr(2, 1)), Tempo, ConstExpr(0, 1)),
     With(With(With(NoExprs, StartTime, ConstExpr(1, 2)), Duration, ConstExpr(1, 1)),
          Frequency, NoteRefExpr(0, Frequency)),
     With(With(NoExprs, StartTime, ConstExpr(0, 1)), MeasureLength, ConstExpr(7, 2)),
     With(With(With(NoExprs, StartTime, ConstExpr(0, 1)), MeasureLength, BadExpr),
          BeatsPerMeasure, ConstExpr(3, 1)),
     With(With(NoExprs, StartTime, ConstExpr(0, 1)), BeatsPerMeasure, Sqrt2Expr),
     With(With(NoExprs, StartTime, BadExpr), Tempo, ConstExpr(90, 1)),
     With(With(NoExprs, StartTime, ConstExpr(0, 1)), Duration, BaseRefExpr(Duration))}

BaseProfiles ==
    {NoExprs,
     With(With(With(With(NoExprs, StartTime, ConstExpr(0, 1)), Frequency, ConstExpr(440, 1)),
               Tempo, ConstExpr(120, 1)), BeatsPerMeasure, ConstExpr(3, 1)),
     With(With(NoExprs, Tempo, ConstExpr(90, 1)), MeasureLength, ConstExpr(5, 1)),
     With(NoExprs, Tempo, Sqrt2Expr)}

\* registerNote(0, base); registerNote(1, note)
Registered(base, note) == register_note(register_note(new_evaluator, 0, base), 1, note)

\* the evaluators the calls start from: a fresh one, and a two-note project
\* that is registered (dirty, not cached), registered and evaluated with
\* evaluateDirty([0, 1]) (cached, not dirty), or registered and evaluated note
\* by note with evaluateNoteInternal (cached and dirty)
PreparedEvaluators ==
    {new_evaluator}
    \cup {Registered(b, n) : b \in BaseProfiles, n \in NoteProfiles}
    \cup {evaluate_dirty(Registered(b, n), <<0, 1>>).pe : b \in BaseProfiles, n \in NoteProfiles}
    \cup {evaluate_note_internal(evaluate_note_internal(Registered(b, n), 0).pe, 1).pe :
             b \in BaseProfiles, n \in NoteProfiles}

InitEval ==
    /\ dependencies = EmptyMap /\ dependents = EmptyMap /\ base_note_dependents = {}
    /\ \E pe \in PreparedEvaluators :
          /\ cache = pe.cache
          /\ bytecode_store = pe.bytecode_store
          /\ dirty = pe.dirty
          /\ generation = pe.generation
    /\ last_call = [op |-> "new"]
    /\ nops = 0

RegisterExpressionInputs ==
    {[var_index |-> Tempo, expr |-> ConstExpr(90, 1)],
     [var_index |-> StartTime, expr |-> BaseRefExpr(Tempo)],
     [var_index |-> 6, expr |-> ConstExpr(90, 1)]}

RegisterNoteInputs ==
    {NoExprs,
     With(NoExprs, StartTime, ConstExpr(0, 1)),
     With(With(NoExprs, Tempo, ConstExpr(90, 1)), MeasureLength, ConstExpr(5, 1)),
     With(With(With(NoExprs, StartTime, ConstExpr(1, 2)), Duration, ConstExpr(1, 1)),
          Frequency, NoteRefExpr(0, Frequency))}

ImportCacheInputs == {EmptyMap, (1 :> FullNote(200))}

MarkDirtyBatchInputs == {<<>>, <<MaxEvalId, MaxEvalId>>, <<0, MaxEvalId + 1>>}

\* id lists handed to evaluateDirty: empty, in and against id order, with a
\* duplicate, with an id that is not registered
EvaluateDirtyInputs ==
    {<<>>, <<0>>, <<MaxEvalId>>, <<0, MaxEvalId>>, <<MaxEvalId, 0>>,
     <<MaxEvalId, MaxEvalId>>, <<MaxEvalId + 1>>, <<0, MaxEvalId + 1, 0>>}

\* one host call: the evaluator becomes pe, the call is recorded
Called(pe, call) ==
    /\ nops < MaxOps
    /\ SetEvaluator(pe)
    /\ last_call' = call
    /\ nops' = nops + 1
    /\ UNCHANGED GraphVars

RegisterExpression ==
    \E id \in EvalIds, in \in RegisterExpressionInputs :
        \E pe \in {register_expression(TheEvaluator, id, in.var_index,
                                       in.expr.bytecode, in.expr.length)} :
            Called(pe, [op |-> "registerExpression", note_id |-> id,
                        var_index |-> in.var_index])

RegisterNote ==
    \E id \in EvalIds, exprs \in RegisterNoteInputs :
        \E pe \in {register_note(TheEvaluator, id, exprs)} :
            Called(pe, [op |-> "registerNote", note_id |-> id])

MarkDirty ==
    \E id \in CallIds :
        \E pe \in {mark_dirty(TheEvaluator, id)} :
            Called(pe, [op |-> "markDirty", note_id |-> id])

MarkDirtyBatch ==
    \E ids \in MarkDirtyBatchInputs :
        \E pe \in {mark_dirty_batch(TheEvaluator, ids)} :
            Called(pe, [op |-> "markDirtyBatch", note_ids |-> ids])

ClearDirty ==
    \E pe \in {clear_dirty(TheEvaluator)} : Called(pe, [op |-> "clearDirty"])

InvalidateNote ==
    \E id \in CallIds :
        \E pe \in {invalidate_note(TheEvaluator, id)} :
            Called(pe, [op |-> "invalidateNote", note_id |-> id])

InvalidateAll ==
    \E pe \in {invalidate_all(TheEvaluator)} : Called(pe, [op |-> "invalidateAll"])

EvalRemoveNote ==
    \E id \in CallIds :
        \E pe \in {pe_remove_note(TheEvaluator, id)} :
            Called(pe, [op |-> "removeNote", note_id |-> id])

EvaluateNoteInternal ==
    \E id \in CallIds :
        \E r \in {evaluate_note_internal(TheEvaluator, id)} :
            Called(r.pe, [op |-> "evaluateNoteInternal", note_id |-> id, ret |-> r.ret])

EvaluateDirty ==
    \E ids \in EvaluateDirtyInputs :
        \E r \in {evaluate_dirty(TheEvaluator, ids)} :
            Called(r.pe, [op |-> "evaluateDirty", sorted_ids |-> ids, count |-> r.count])

ImportCache ==
    \E c \in ImportCacheInputs :
        \E pe \in {import_cache(TheEvaluator, c)} :
            Called(pe, [op |-> "importCache"])

NextEval ==
    \/ RegisterExpression
    \/ RegisterNote
    \/ MarkDirty
    \/ MarkDirtyBatch
    \/ ClearDirty
    \/ InvalidateNote
    \/ InvalidateAll
    \/ EvalRemoveNote
    \/ EvaluateNoteInternal
    \/ EvaluateDirty
    \/ ImportCache

SpecEval == InitEval /\ [][NextEval]_vars

\* C5: every PersistentEvaluator operation that changes the cache or the
\* bytecode store strictly increases generation.
C5_MutationBumpsGeneration ==
    [][(cache' # cache \/ bytecode_store' # bytecode_store) => generation' > generation]_vars

\* C6: for any id list (empty, with unregistered ids, with duplicates),
\* evaluateDirty leaves the dirty set empty and generation exactly one greater
\* than before the call.
C6_EvaluateDirtyClearsAndBumpsOnce ==
    [][last_call'.op = "evaluateDirty" =>
          (dirty' = {} /\ generation' = generation + 1)]_vars

\* evaluateDirty returned from a list holding a duplicate and an unregistered
\* id, having evaluated the registered note twice
C6_Witness ==
    /\ last_call.op = "evaluateDirty"
    /\ last_call.sorted_ids = <<0, MaxEvalId + 1, 0>>
    /\ last_call.count = 2
    /\ 0 \in DOMAIN cache
    /\ dirty = {}

\* C7: removeNote(id) removes id's cache entry, bytecode slots and dirty
\* membership, and leaves those of every other note id unchanged.
C7_RemoveNoteFrame ==
    [][last_call'.op = "removeNote" =>
          LET id == last_call'.note_id
          IN  /\ id \notin DOMAIN cache'
              /\ id \notin DOMAIN bytecode_store'
              /\ id \notin dirty'
              /\ DOMAIN cache' = DOMAIN cache \ {id}
              /\ \A o \in DOMAIN cache' : cache'[o] = cache[o]
              /\ DOMAIN bytecode_store' = DOMAIN bytecode_store \ {id}
              /\ \A o \in DOMAIN bytecode_store' : bytecode_store'[o] = bytecode_store[o]
              /\ dirty' = dirty \ {id}]_vars

\* removeNote returned while another note is cached, registered and dirty
C7_Witness ==
    /\ last_call.op = "removeNote"
    /\ last_call.note_id \in EvalIds
    /\ \E o \in EvalIds \ {last_call.note_id} :
          o \in DOMAIN cache /\ o \in DOMAIN bytecode_store /\ o \in dirty

\* evaluateNoteInternal(id) returned true
C9_Evaluated == last_call.op = "evaluateNoteInternal" /\ last_call.ret

\* the note's measureLength slot is registered and evaluates to a value
\* (whether an expression yields a value does not depend on the cache: a
\* missing reference falls back to a default)
C9_OwnProduced(id) ==
    LET slot == bytecode_store[id][MeasureLength]
    IN  /\ slot.some
        /\ evaluate_with_cache(slot.v.bytecode, slot.v.length, cache).tag = "Ok"

\* the base note, or startTime present with duration and frequency absent
C9_TakesDefault(id) ==
    \/ id = 0
    \/ /\ cache[id].start_time.some
       /\ ~cache[id].duration.some
       /\ ~cache[id].frequency.some

\* the note's own cached value, else the base note's, else the integer dflt
C9_Operand(id, var, dflt) ==
    IF get_var(cache[id], var).some THEN get_var(cache[id], var).v
    ELSE IF 0 \in DOMAIN cache /\ get_var(cache[0], var).some THEN get_var(cache[0], var).v
    ELSE [s |-> 1, n |-> dflt, d |-> 1, f |-> None, corrupted |-> FALSE]

\* ml = b * 60 / t on FractionData: exact by cross-multiplication when b and t
\* are exact, one when t is zero, and marked inexact when b or t is
C9_IsQuotient(ml, b, t) ==
    IF b.corrupted \/ t.corrupted THEN ml.corrupted /\ ml.f.some
    ELSE IF t.n = 0 THEN ~ml.corrupted /\ ml.s * ml.n = ml.d
    ELSE /\ ~ml.corrupted
         /\ ml.d > 0
         /\ ml.s * ml.n * t.s * t.n * b.d = b.s * b.n * 60 * t.d * ml.d

\* C9: after evaluateNoteInternal(id), when the note's own expression produced
\* no measureLength: the base note, and a note with startTime present and
\* duration and frequency absent, hold measureLength = beats * 60 / tempo
\* (own values, else the base note's cached ones, else 4 and 60); every other
\* note holds no measureLength.
C9_MeasureLengthDefault ==
    C9_Evaluated =>
        LET id == last_call.note_id
        IN  ~C9_OwnProduced(id) =>
                IF C9_TakesDefault(id)
                THEN /\ cache[id].measure_length.some
                     /\ C9_IsQuotient(cache[id].measure_length.v,
                                      C9_Operand(id, BeatsPerMeasure, 4),
                                      C9_Operand(id, Tempo, 60))
                ELSE ~cache[id].measure_length.some

\* a measure note other than the base note took its tempo from the base
\* note's cache (not 60) and got an exact measureLength
C9_Witness ==
    /\ C9_Evaluated
    /\ last_call.note_id # 0
    /\ ~C9_OwnProduced(last_call.note_id)
    /\ C9_TakesDefault(last_call.note_id)
    /\ ~cache[last_call.note_id].tempo.some
    /\ 0 \in DOMAIN cache /\ cache[0].tempo.some
    /\ ~cache[0].tempo.v.corrupted /\ cache[0].tempo.v.n \notin {0, 60}
    /\ cache[last_call.note_id].measure_length.some
    /\ ~cache[last_call.note_id].measure_length.v.corrupted

(***************************************************************************)
(* Evaluation of notes whose expressions reference themselves and each      *)
(* other: the bytecode reads the cache, it never calls into another note.   *)
(***************************************************************************)
\* longest id list handed to evaluateDirty
MaxListLen == 3

\* the expression `note(id).var + 1`
RefPlusOne(id, var) ==
    LET c == emit_op(emit_constant(emit_note_ref(new_compiler, id, var), 1, 1), Add)
    IN  Expr(c.bytecode, Len(c.bytecode))

\* a note whose frequency is its own frequency plus one, and whose startTime
\* and duration are one more than a variable of note `other`
CyclicExprs(id, other, var) ==
    With(With(With(NoExprs, Frequency, RefPlusOne(id, Frequency)),
              StartTime, RefPlusOne(other, var)),
         Duration, RefPlusOne(other, StartTime))

\* notes 0 and 1, each referring to itself or to the other one
InitSelf ==
    /\ dependencies = EmptyMap /\ dependents = EmptyMap /\ base_note_dependents = {}
    /\ \E o0 \in {0, 1}, o1 \in {0, 1}, v0 \in {StartTime, Duration}, v1 \in {StartTime, Duration} :
          \E pe \in {Registered(CyclicExprs(0, o0, v0), CyclicExprs(1, o1, v1))} :
              /\ cache = pe.cache
              /\ bytecode_store = pe.bytecode_store
              /\ dirty = pe.dirty
              /\ generation = pe.generation
    /\ last_call = [op |-> "new"]
    /\ nops = 0

\* evaluateDirty(sorted_ids), once, on the empty cache
EvaluateDirtyList ==
    /\ last_call.op = "new"
    /\ \E ids \in SeqsUpTo(CallIds, MaxListLen) :
          \E r \in {evaluate_dirty(TheEvaluator, ids)} :
              /\ SetEvaluator(r.pe)
              /\ last_call' = [op |-> "evaluateDirty", sorted_ids |-> ids, count |-> r.count]
    /\ nops' = nops + 1
    /\ UNCHANGED GraphVars

NextSelf == EvaluateDirtyList

SpecSelf == InitSelf /\ [][NextSelf]_vars

\* how often id is listed
C19_Occurrences(ids, id) == Cardinality({i \in DOMAIN ids : ids[i] = id})

\* C19: evaluateDirty over notes that reference themselves and each other
\* returns the number of listed occurrences of registered notes, and has
\* evaluated each occurrence exactly once: a frequency defined as the note's
\* own frequency plus one ends at the default 440 plus the number of
\* occurrences, and every expression produced a value; notes not listed are
\* not cached.
C19_EachOccurrenceOnce ==
    last_call.op = "evaluateDirty" =>
        /\ last_call.count =
              Cardinality({i \in DOMAIN last_call.sorted_ids :
                              last_call.sorted_ids[i] \in DOMAIN bytecode_store})
        /\ \A id \in DOMAIN bytecode_store :
              IF C19_Occurrences(last_call.sorted_ids, id) = 0
              THEN id \notin DOMAIN cache
              ELSE /\ id \in DOMAIN cache
                   /\ cache[id].frequency =
                         Some(Rat(440 + C19_Occurrences(last_call.sorted_ids, id)))
                   /\ cache[id].start_time.some
                   /\ cache[id].duration.some

\* note 1, listed twice around note 0, was evaluated twice
C19_Witness ==
    /\ last_call.op = "evaluateDirty"
    /\ last_call.sorted_ids = <<1, 0, 1>>
    /\ last_call.count = 3
    /\ cache[1].frequency = Some(Rat(442))
    /\ cache[0].frequency = Some(Rat(441))

(***************************************************************************)
(* Host calls whose argument is a JsValue: the value either deserializes to *)
(* the expected type or the call returns the error before anything else.    *)
(***************************************************************************)
\* a JsValue that serde_wasm_bindgen::from_value accepts as v, or rejects
Js(v) == [ok |-> TRUE, v |-> v]

JsUndeserializable == [ok |-> FALSE]

JsGraphs == {new_graph, sync_from_js(<<[id |-> 1, deps |-> {0}, references_base |-> FALSE]>>)}

InitJs ==
    /\ \E g \in JsGraphs :
          /\ dependencies = g.dependencies
          /\ dependents = g.dependents
          /\ base_note_dependents = g.base_note_dependents
    /\ \E pe \in PreparedEvaluators :
          /\ cache = pe.cache
          /\ bytecode_store = pe.bytecode_store
          /\ dirty = pe.dirty
          /\ generation = pe.generation
    /\ last_call = [op |-> "new"]
    /\ nops = 0

\* registerExpression(note_id, var_index, bytecode, length)
JsRegisterExpression ==
    \E id \in EvalIds, in \in RegisterExpressionInputs :
        \E pe \in {register_expression(TheEvaluator, id, in.var_index,
                                       in.expr.bytecode, in.expr.length)} :
            Called(pe, [op |-> "registerExpression", note_id |-> id,
                        rejected |-> in.var_index \notin 0..5])

\* what the evaluator holds for id when a call begins
NoteStateBefore(id) ==
    IF id \in dirty THEN "dirty"
    ELSE IF id \in DOMAIN bytecode_store THEN "clean"
    ELSE "unregistered"

\* registerNote(note_id, expressions): `from_value(expressions)?` comes first
JsRegisterNote ==
    \E id \in EvalIds, js \in {Js(e) : e \in RegisterNoteInputs} \cup {JsUndeserializable} :
        \E pe \in {IF js.ok THEN register_note(TheEvaluator, id, js.v) ELSE TheEvaluator} :
            Called(pe, [op |-> "registerNote", note_id |-> id, rejected |-> ~js.ok,
                        before |-> NoteStateBefore(id)])

\* importCache(cache_json): `from_value(cache_json)?` comes first
JsImportCache ==
    \E js \in {Js(c) : c \in ImportCacheInputs} \cup {JsUndeserializable} :
        \E pe \in {IF js.ok THEN import_cache(TheEvaluator, js.v) ELSE TheEvaluator} :
            Called(pe, [op |-> "importCache", rejected |-> ~js.ok])

\* syncFromJs(data): `from_value(data)?` comes before clear()
JsSyncFromJs ==
    /\ nops < MaxOps
    /\ \E js \in {Js(l) : l \in SyncLists} \cup {JsUndeserializable} :
          /\ SetGraph(IF js.ok THEN sync_from_js(js.v) ELSE TheGraph)
          /\ last_call' = [op |-> "syncFromJs", rejected |-> ~js.ok]
    /\ nops' = nops + 1
    /\ UNCHANGED EvalVars

NextJs == JsRegisterExpression \/ JsRegisterNote \/ JsImportCache \/ JsSyncFromJs

SpecJs == InitJs /\ [][NextJs]_vars

\* C13: a host call that rejects its input leaves the state it would have
\* written as it was: importCache the cache and generation, registerNote the
\* bytecode store and dirty set, registerExpression (var index outside 0..5)
\* the bytecode store, syncFromJs the graph.
C13_RejectedLeavesState ==
    [][/\ nops' = nops + 1
       /\ last_call'.rejected
       => CASE last_call'.op = "importCache" -> UNCHANGED <<cache, generation>>
            [] last_call'.op = "registerNote" -> UNCHANGED <<bytecode_store, dirty>>
            [] last_call'.op = "registerExpression" -> UNCHANGED bytecode_store
            [] last_call'.op = "syncFromJs" -> UNCHANGED GraphVars]_vars

\* C29: after a registerNote(id, exprs) that succeeded, id is in the dirty
\* set, whether id was unregistered, registered and clean, or already dirty
\* when the call began.
C29_RegisteredIsDirty ==
    (last_call.op = "registerNote" /\ ~last_call.rejected) => last_call.note_id \in dirty

\* a registered note that was not dirty has been registered again
C29_Witness ==
    /\ last_call.op = "registerNote"
    /\ ~last_call.rejected
    /\ last_call.before = "clean"
    /\ last_call.note_id \in dirty

(***************************************************************************)
(* Evaluation of notes of which one variable's bytecode fails.              *)
(***************************************************************************)
\* bytecode that fails: unknown opcode, truncated operand, invalid variable
\* index, stack underflow, DUP on an empty stack
FailExprs ==
    {BadExpr,
     Expr(<<LoadConst, 0, 0, 0>>, 4),
     Expr(<<LoadBase, 9>>, 2),
     Expr(<<LoadBase, Tempo, Add>>, 3),
     Expr(<<Dup>>, 1)}

\* all six variables given by constants
FullExprs ==
    [v \in Vars |-> Some(ConstExpr(v + 1, 1))]

\* a measure note: startTime, tempo, beatsPerMeasure and measureLength only
MeasureExprs ==
    [v \in Vars |-> IF v \in {Duration, Frequency} THEN None ELSE Some(ConstExpr(v + 1, 1))]

\* one variable of a note replaced by failing bytecode
FailProfiles ==
    {FullExprs, MeasureExprs}
    \cup {With(FullExprs, v, f) : v \in Vars, f \in FailExprs}
    \cup {With(MeasureExprs, v, f) : v \in Vars \ {Duration, Frequency}, f \in FailExprs}

FailBaseProfiles ==
    {FullExprs, With(FullExprs, Tempo, BadExpr), With(FullExprs, MeasureLength, BadExpr),
     With(NoExprs, Frequency, BadExpr)}

InitFail ==
    /\ dependencies = EmptyMap /\ dependents = EmptyMap /\ base_note_dependents = {}
    /\ \E b \in FailBaseProfiles, n \in FailProfiles :
          \E pe \in {Registered(b, n)} :
              /\ cache = pe.cache
              /\ bytecode_store = pe.bytecode_store
              /\ dirty = pe.dirty
              /\ generation = pe.generation
    /\ last_call = [op |-> "new"]
    /\ nops = 0

NextFail == EvaluateNoteInternal \/ EvaluateDirty

SpecFail == InitFail /\ [][NextFail]_vars

\* the variable's registered bytecode, run on its own, is an error
C12_Fails(id, var) ==
    /\ bytecode_store[id][var].some
    /\ evaluate_with_cache(bytecode_store[id][var].v.bytecode,
                           bytecode_store[id][var].v.length, EmptyMap).tag = "Err"

C12_Succeeds(id, var) ==
    /\ bytecode_store[id][var].some
    /\ evaluate_with_cache(bytecode_store[id][var].v.bytecode,
                           bytecode_store[id][var].v.length, EmptyMap).tag = "Ok"

\* the note is the base note or a measure note: its measureLength is derived
C12_Derives(id) ==
    \/ id = 0
    \/ /\ cache[id].start_time.some
       /\ ~cache[id].duration.some
       /\ ~cache[id].frequency.some

\* the ids a call evaluated last, each with nothing evaluated after it
C12_JustEvaluated ==
    CASE last_call.op = "evaluateNoteInternal" -> {last_call.note_id} \cap DOMAIN bytecode_store
      [] last_call.op = "evaluateDirty" ->
            {last_call.sorted_ids[i] : i \in DOMAIN last_call.sorted_ids} \cap DOMAIN bytecode_store
      [] OTHER -> {}

C12_Returned ==
    /\ last_call.op = "evaluateNoteInternal" =>
          last_call.ret = (last_call.note_id \in DOMAIN bytecode_store)
    /\ last_call.op = "evaluateDirty" =>
          last_call.count = Cardinality({i \in DOMAIN last_call.sorted_ids :
                                            last_call.sorted_ids[i] \in DOMAIN bytecode_store})

\* C12 as stated: a failing variable is absent from the cached note, whatever
\* the variable.
C12_FailedVariableAbsent ==
    /\ C12_Returned
    /\ \A id \in C12_JustEvaluated :
          /\ id \in DOMAIN cache
          /\ \A var \in Vars :
                /\ C12_Fails(id, var) => ~get_var(cache[id], var).some
                /\ C12_Succeeds(id, var) => get_var(cache[id], var).some

\* C12: when one variable's bytecode fails, the note is still cached and the
\* call returns true; every variable whose bytecode succeeds is present; the
\* failing variable is absent, except a failing measureLength of the base note
\* or of a measure note, which holds the derived default; every registered
\* note of an evaluateDirty list is evaluated and counted.
C12_FailureContained ==
    /\ C12_Returned
    /\ \A id \in C12_JustEvaluated :
          /\ id \in DOMAIN cache
          /\ \A var \in Vars :
                /\ (C12_Fails(id, var) /\ ~(var = MeasureLength /\ C12_Derives(id)))
                      => ~get_var(cache[id], var).some
                /\ (C12_Fails(id, var) /\ var = MeasureLength /\ C12_Derives(id))
                      => cache[id].measure_length =
                            Some(from_value(DerivedMeasureLength(cache[id], cache)))
                /\ C12_Succeeds(id, var) => get_var(cache[id], var).some

\* evaluateDirty([1, 0]) went past note 1, whose startTime fails, and cached both
C12_Witness ==
    /\ last_call.op = "evaluateDirty"
    /\ last_call.sorted_ids = <<1, 0>>
    /\ last_call.count = 2
    /\ C12_Fails(1, StartTime)
    /\ ~cache[1].start_time.some
    /\ cache[1].tempo.some
    /\ 0 \in DOMAIN cache

(***************************************************************************)
(* What a note's evaluation leaves in the cache: notes 0 and 1 are          *)
(* registered with constants of every size, symbolic and failing            *)
(* expressions and reads of the base note, and one call evaluates them.     *)
(***************************************************************************)
\* LOAD_CONST_BIG of sign, numerator bytes, denominator bytes
WideConst(sign, num, den) ==
    Expr(<<LoadConstBig, sign, 0, Len(num)>> \o num \o <<0, Len(den)>> \o den,
         6 + Len(num) + Len(den))

\* 2^32 - 1, -(2^31 + 1), 1/(2^32 - 1): magnitudes a u32 holds; 2^32: one it does not
WideExprs ==
    {WideConst(0, <<255, 255, 255, 255>>, <<1>>),
     WideConst(1, <<128, 0, 0, 1>>, <<1>>),
     WideConst(0, <<1>>, <<255, 255, 255, 255>>),
     WideConst(0, <<1, 0, 0, 0, 0>>, <<1>>)}

CacheExprs(v) ==
    WideExprs \cup {ConstExpr(3, 2), ConstExpr(-5, 1), Sqrt2Expr, BadExpr, BaseRefExpr(v),
                    NoteRefExpr(0, v)}

CacheProfiles ==
    {FullExprs, MeasureExprs}
    \cup {With(FullExprs, v, e) : <<v, e>> \in {<<w, x>> \in Vars \X UNION {CacheExprs(u) : u \in Vars} :
                                                  x \in CacheExprs(w)}}
    \cup {With(MeasureExprs, v, e) : <<v, e>> \in {<<w, x>> \in (Vars \ {Duration, Frequency})
                                                       \X UNION {CacheExprs(u) : u \in Vars} :
                                                     x \in CacheExprs(w)}}

CacheBaseProfiles ==
    {FullExprs}
    \cup {With(FullExprs, v, e) :
             v \in {Frequency, Tempo},
             e \in {WideConst(0, <<255, 255, 255, 255>>, <<1>>),
                    WideConst(0, <<1, 0, 0, 0, 0>>, <<1>>), Sqrt2Expr}}

InitCache ==
    /\ dependencies = EmptyMap /\ dependents = EmptyMap /\ base_note_dependents = {}
    /\ \E b \in CacheBaseProfiles, n \in CacheProfiles :
          \E pe \in {Registered(b, n)} :
              /\ cache = pe.cache
              /\ bytecode_store = pe.bytecode_store
              /\ dirty = pe.dirty
              /\ generation = pe.generation
    /\ last_call = [op |-> "new"]
    /\ nops = 0

NextCache == EvaluateNoteInternal \/ EvaluateDirty

SpecCache == InitCache /\ [][NextCache]_vars

C24_HasFlag(flags, var) == (flags \div corruption_flag_for_var(var)) % 2 = 1

C25_Computed(id, var) ==
    evaluate_with_cache(bytecode_store[id][var].v.bytecode,
                        bytecode_store[id][var].v.length, EmptyMap)

C25_CachedExact(id, var) ==
    /\ id \in DOMAIN cache
    /\ get_var(cache[id], var).some
    /\ ~get_var(cache[id], var).v.corrupted
    /\ bytecode_store[id][var].some
    /\ bytecode_store[id][var].v.bytecode[1] \in {LoadConst, LoadConstBig}
    /\ C25_Computed(id, var).tag = "Ok"

\* C25: a variable cached with corrupted = false is read back exactly: a
\* LOAD_REF of it, and a LOAD_BASE when the note is the base note, pushes the
\* Rational that its evaluation computed, for every magnitude a u32 holds.
C25_CacheRoundTrip ==
    \A id \in EvalIds, var \in Vars :
        C25_CachedExact(id, var) =>
            /\ evaluate_with_cache(NoteRefExpr(id, var).bytecode, NoteRefExpr(id, var).length,
                                   cache).value = C25_Computed(id, var).value
            /\ id = 0 =>
                  evaluate_with_cache(BaseRefExpr(var).bytecode, BaseRefExpr(var).length,
                                      cache).value = C25_Computed(id, var).value

(***************************************************************************)
(* The compiler on source texts, and the VM on what it returns.  A text is   *)
(* compiled on a build with or without overflow checks; the bytecode of a    *)
(* returned CompiledExpression is then evaluated one instruction at a time.  *)
(***************************************************************************)
FractionText(args) == NewKeyword \o <<" ">> \o FractionOpen \o args \o <<")">>

BaseRefText(name) == BaseRefPrefix \o name \o VarSuffix

NoteIdText(id) == NoteRefPrefix \o id \o <<")">>

NoteRefText(id, name) == NoteIdText(id) \o VarPrefix \o name \o VarSuffix

CallText(prefix, arg) == prefix \o arg \o <<")">>

MethodText(receiver, method, arg) == receiver \o method \o arg \o <<")">>

Unknown == <<"f", "o", "o">>

\* the note ids of the texts: small ones, 2^16 and 2^16 + 5, u32::MAX, 2^32
IdTexts ==
    {<<"0">>, <<"5">>, <<"6", "5", "5", "3", "6">>, <<"6", "5", "5", "4", "1">>,
     <<"4", "2", "9", "4", "9", "6", "7", "2", "9", "5">>,
     <<"4", "2", "9", "4", "9", "6", "7", "2", "9", "6">>}

MinText == <<"-", "2", "1", "4", "7", "4", "8", "3", "6", "4", "8">>

MaxText == <<"2", "1", "4", "7", "4", "8", "3", "6", "4", "7">>

HugeText == <<"9", "9", "9", "9", "9", "9", "9", "9", "9", "9", "9">>

FractionTexts ==
    {FractionText(args) :
        args \in {<<"3", ",", " ", "4">>, <<"6", ",", "4">>, <<"1", ",", "0">>,
                  <<"-", "3", ",", "-", "6">>, <<"7">>, <<"0", ".", "5">>,
                  <<"1", ".", "5">>, <<"0", ".", "3", "5">>, <<"-", "2", ".", "7", "5">>,
                  <<>>, <<"1", ",", "2", ",", "3">>, <<"x">>,
                  HugeText, MaxText \o <<",", "1">>, HugeText \o <<",", "1">>,
                  MinText \o <<",">> \o MaxText, MinText \o <<",", "2">>}}

RefTexts ==
    {BaseRefText(name) : name \in {VarNames[Tempo + 1], VarNames[StartTime + 1], Unknown}}
    \cup {BaseRefPrefix \o <<")">>}
    \cup {NoteRefText(id, VarNames[Duration + 1]) : id \in IdTexts}
    \cup {NoteRefText(<<"5">>, Unknown), NoteRefText(<<"x">>, VarNames[Tempo + 1]),
          NoteIdText(<<"5">>) \o VarPrefix \o <<")">>}

FindTexts ==
    {CallText(prefix, arg) :
        prefix \in {FindTempoPrefix, FindMeasurePrefix},
        arg \in {ModuleBaseNote, Unknown} \cup {NoteIdText(id) : id \in IdTexts}}
    \cup {CallText(BeatUnitPrefix, arg \o <<")">>) :
             arg \in {ModuleBaseNote, NoteIdText(<<"5">>),
                      NoteIdText(<<"6", "5", "5", "4", "1">>)}}

OtherTexts ==
    {<<>>, <<" ">>, <<"4", "2">>, <<"0", ".", "2", "5">>, <<"-", "1", ".", "5">>, Inf,
     <<".">>, HugeText, VarNames[Tempo + 1], Unknown,
     <<"C3", "A9">>, <<"(", "C3", "A9", ")">>, <<"(", "1">>, <<"1", ")">>,
     <<")", "(">>, <<"(", "(", "4", "2", ")", ")">>, DotAdd, DotMul \o <<")">>}

AtomTexts == FractionTexts \cup RefTexts \cup FindTexts \cup OtherTexts

\* the operands of the method chains
Operands ==
    {FractionText(<<"1", ",", "4">>), BaseRefText(VarNames[StartTime + 1]),
     NoteRefText(<<"5">>, VarNames[Duration + 1]),
     NoteRefText(<<"6", "5", "5", "3", "6">>, VarNames[Tempo + 1]),
     BaseRefText(Unknown), Unknown, <<"C3", "A9">>, <<"2">>}

ChainTexts ==
    {MethodText(a, method, b) :
        a \in Operands, method \in {DotAdd, DotSub, DotMul, DotDiv}, b \in Operands}
    \cup {MethodText(MethodText(a, m1, <<"2">>), m2, MethodText(<<"3">>, m3, a)) :
             a \in {FractionText(<<"1", ",", "4">>),
                    NoteRefText(<<"5">>, VarNames[Duration + 1])},
             m1 \in {DotAdd, DotMul}, m2 \in {DotSub, DotDiv}, m3 \in {DotAdd, DotMul}}
    \cup {<<"(">> \o MethodText(<<"1">>, DotAdd, <<"2">>) \o <<")">>
          \o DotMul \o <<"3", ")">>}

CompileTexts == AtomTexts \cup ChainTexts

InitCompile ==
    /\ dependencies = EmptyMap /\ dependents = EmptyMap /\ base_note_dependents = {}
    /\ bytecode_store = EmptyMap /\ dirty = {} /\ generation = 0
    /\ cache = (0 :> FullNote(100)) @@ (5 :> FullNote(200))
    /\ \E text \in CompileTexts, overflow_checks \in BOOLEAN :
          last_call = [op |-> "text", text |-> text, overflow_checks |-> overflow_checks]
    /\ nops = 0

\* ExpressionCompiler::compile(text)
Compile ==
    /\ last_call.op = "text"
    /\ \E r \in {compile(last_call.text, last_call.overflow_checks)} :
          last_call' = [op |-> "compile", text |-> last_call.text, result |-> r]
    /\ nops' = nops + 1
    /\ UNCHANGED <<GraphVars, EvalVars>>

\* the returned bytecode handed to evaluate: the stack is cleared, the loop starts
EvaluateCompiled ==
    /\ last_call.op = "compile"
    /\ last_call.result.res = "Ok"
    /\ last_call' = Running([bytecode |-> last_call.result.c.bytecode,
                             length |-> Len(last_call.result.c.bytecode)], 0, <<>>, -1)
    /\ UNCHANGED <<GraphVars, EvalVars, nops>>

NextCompile == Compile \/ EvaluateCompiled \/ StackStep \/ StackReturn

SpecCompile == InitCompile /\ [][NextCompile]_vars

\* the instructions of a bytecode the compiler emitted, as <<opcode, offset>>
RECURSIVE Instructions(_, _)
Instructions(bytecode, pc) ==
    IF pc >= Len(bytecode) THEN <<>>
    ELSE <<<<bytecode[pc + 1], pc>>>>
         \o Instructions(bytecode,
                         pc + (CASE bytecode[pc + 1] = LoadConst -> 9
                                 [] bytecode[pc + 1] = LoadRef -> 4
                                 [] bytecode[pc + 1] = LoadBase -> 2
                                 [] OTHER -> 1))

Compiled == last_call.op = "compile" /\ last_call.result.res = "Ok"

\* C26: compile never throws: for every text (empty, unbalanced parentheses,
\* unknown variable names, non-ASCII characters, extreme integer literals) it
\* returns a CompiledExpression; when the expression is unparseable the
\* bytecode is the single instruction LOAD_CONST 0 1 with no dependencies and
\* referencesBase false; and every returned bytecode evaluates in the VM without
\* error and leaves exactly one value on the stack.
C26_CompileNeverThrows ==
    /\ last_call.op = "compile" => last_call.result.res = "Ok"
    /\ (Compiled /\ last_call.result.failed) =>
          /\ last_call.result.c.bytecode = <<LoadConst>> \o write_i32(0) \o write_i32(1)
          /\ last_call.result.c.dependencies = {}
          /\ ~last_call.result.c.references_base
    /\ (last_call.op = "run" /\ last_call.pc >= last_call.length) =>
          Len(last_call.stack) = 1
    /\ last_call.op = "evaluate_with_cache" => last_call.result.tag = "Ok"

\* C27: the dependency set of a compiled expression is exactly the set of note
\* ids its LOAD_REF instructions read, for every u32 note id of the text, and
\* referencesBase holds exactly when the bytecode has a LOAD_BASE.
C27_DependenciesMatchLoadRefs ==
    Compiled =>
       \E ins \in {Instructions(last_call.result.c.bytecode, 0)} :
          /\ last_call.result.c.dependencies
                = {read_u16(last_call.result.c.bytecode, ins[k][2] + 1) :
                      k \in {j \in 1..Len(ins) : ins[j][1] = LoadRef}}
          /\ last_call.result.c.references_base
                <=> \E k \in 1..Len(ins) : ins[k][1] = LoadBase

(***************************************************************************)
(* fraction.rs : the constructors from a float and from a string, and the   *)
(* Fraction constructors and operations called on bounded inputs.           *)
(***************************************************************************)
\* Fraction::new_raw(num, den), den # 0
new_raw(num, den) == Ratio(num, den)

\* the error of the candidate round(abs_value * den) / den for abs_value = p/q,
\* times q * den
FromF64Error(p, q, den) == Abs(p * den - Round(p * den, q) * q)

\* the `for den in 1..=max_iterations` loop of from_f64 on abs_value = p/q: a
\* candidate replaces the best one only when its error is smaller, and the loop
\* ends at an error below the tolerance (an error that is not zero is 1/(q*den)
\* at least, above 1e-10 for the floats of this model).  The loop so returns the
\* first den of 1..100 whose error is the least; the candidate it starts from
\* is the one of den = 1.
FromF64Loop(p, q) ==
    CHOOSE den \in 1..100 :
       \A other \in 1..100 :
          \/ FromF64Error(p, q, den) * other < FromF64Error(p, q, other) * den
          \/ /\ FromF64Error(p, q, den) * other = FromF64Error(p, q, other) * den
             /\ den <= other

\* Fraction::from_f64 on a float that is not finite, or on the rational x
from_f64(finite, x) ==
    IF ~finite THEN new_raw(0, 1)
    ELSE LET sign == IF x.num < 0 THEN -1 ELSE 1
             p    == Abs(x.num)
         IN  IF p = 0 THEN new_raw(0, 1)
             ELSE IF x.den = 1 THEN new_raw(sign * p, 1)
             ELSE Let(FromF64Loop(p, x.den),
                      LAMBDA best_den :
                         new_raw(sign * Round(p * best_den, x.den), best_den))

\* str::parse::<BigInt>: an optional sign and one digit at least
parse_big_int(s) ==
    LET negative == s # <<>> /\ Head(s) = "-"
        body     == IF s # <<>> /\ Head(s) \in {"+", "-"} THEN Tail(s) ELSE s
    IN  IF body = <<>> THEN None
        ELSE Let(fraction_digits(body, 0),
                 LAMBDA m : IF ~m.some THEN None
                            ELSE Some(IF negative THEN -m.v ELSE m.v))

\* Fraction::from_string: Some(fraction) for Ok, None for Err.  A text that
\* parses as an i64 parses as an f64, so the last branch of the code is never
\* taken.
from_string(text) ==
    Let(trim(text),
        LAMBDA s :
           Let(find(s, <<"/">>),
               LAMBDA pos :
                  IF pos.some
                     THEN Let(<<parse_big_int(trim(Slice(s, 0, pos.v))),
                                parse_big_int(trim(Slice(s, pos.v + 1, Len(s))))>>,
                              LAMBDA nd :
                                 IF ~nd[1].some \/ ~nd[2].some THEN None
                                 ELSE IF nd[2].v = 0 THEN None
                                 ELSE Some(Ratio(nd[1].v, nd[2].v)))
                     ELSE Let(parse_f64(s),
                              LAMBDA f :
                                 IF ~f.some THEN None
                                 ELSE IF ~f.v.finite THEN Some(from_f64(FALSE, F64Zero))
                                 ELSE Some(from_f64(TRUE,
                                              F64((IF f.v.negative THEN -1 ELSE 1)
                                                     * (f.v.int * f.v.fden + f.v.fnum),
                                                  f.v.fden))))))

\* largest magnitude of the integers handed to the constructors
MaxFracNum == 6

\* most operations applied to a constructed fraction
MaxFracOps == 2

FracInts == (-MaxFracNum)..MaxFracNum

\* the floats handed to from_f64: fractions of the integers and 1/101, which
\* the loop cannot reach
FracFloats ==
    {F64(n, d) : n \in FracInts, d \in 1..MaxFracNum} \cup {F64(1, 101), F64(-314, 100)}

FracStrings ==
    {<<"3", "/", "4">>, <<"6", "/", "-", "4">>, <<" ", "-", "1", "0", " ", "/", " ", "4">>,
     <<"0", "/", "5">>, <<"1", "/", "0">>, <<"x", "/", "2">>, <<"1", ".", "5">>,
     <<"-", "0", ".", "3", "5">>, <<"4", "2">>, <<"0", ".", "5", "0">>, Inf, Unknown, <<>>}

\* the second operand of add, sub, mul and div
FracOperands == {FractionNew(n, d) : n \in {-3, 0, 1, 4}, d \in {1, 2, 6}}

InitFraction ==
    /\ dependencies = EmptyMap /\ dependents = EmptyMap /\ base_note_dependents = {}
    /\ cache = EmptyMap /\ bytecode_store = EmptyMap /\ dirty = {} /\ generation = 0
    /\ last_call = [op |-> "none"]
    /\ nops = 0

\* a constructor is called first
Constructed(name, args, r) ==
    /\ last_call' = [op |-> name, args |-> args, ok |-> TRUE, result |-> r]
    /\ nops' = 0
    /\ UNCHANGED <<GraphVars, EvalVars>>

\* Fraction::new(num, den)
FractionNewCall ==
    /\ last_call.op = "none"
    /\ \E num \in FracInts, den \in FracInts :
          \E r \in {FractionNew(num, den)} : Constructed("new", <<num, den>>, r)

\* Fraction::from_big_ints(num, den), a numerator of 2^32 over zero included
FromBigIntsCall ==
    /\ last_call.op = "none"
    /\ \E num \in {BigInt(1, <<k>>) : k \in 0..MaxFracNum}
                  \cup {BigInt(-1, <<k>>) : k \in 1..MaxFracNum}
                  \cup {BigInt(1, <<1, 0, 0, 0, 0>>)},
          den \in {BigInt(1, <<k>>) : k \in 0..MaxFracNum}
                  \cup {BigInt(-1, <<k>>) : k \in 1..MaxFracNum} :
          /\ num.wide => den.int = 0
          /\ \E r \in {from_big_ints(num, den)} :
                Constructed("from_big_ints", <<num, den>>, r)

\* Fraction::from_f64(value)
FromF64Call ==
    /\ last_call.op = "none"
    /\ \E finite \in BOOLEAN, x \in FracFloats :
          \E r \in {from_f64(finite, x)} : Constructed("from_f64", <<finite, x>>, r)

\* Fraction::from_string(s): Ok with a fraction, or Err
FromStringCall ==
    /\ last_call.op = "none"
    /\ \E s \in FracStrings :
          \E r \in {from_string(s)} :
             last_call' = IF r.some
                             THEN [op |-> "from_string", args |-> <<s>>, ok |-> TRUE,
                                   result |-> r.v]
                             ELSE [op |-> "from_string", args |-> <<s>>, ok |-> FALSE]
    /\ nops' = 0
    /\ UNCHANGED <<GraphVars, EvalVars>>

\* an operation follows on the fraction the last call returned
HasFraction == last_call.op # "none" /\ last_call.ok /\ nops < MaxFracOps

Operated(name, args, r) ==
    /\ last_call' = [op |-> name, args |-> args, ok |-> TRUE, result |-> r]
    /\ nops' = nops + 1
    /\ UNCHANGED <<GraphVars, EvalVars>>

FractionAddCall ==
    /\ HasFraction
    /\ \E b \in FracOperands :
          \E r \in {FractionAdd(last_call.result, b)} :
             Operated("add", <<last_call.result, b>>, r)

FractionSubCall ==
    /\ HasFraction
    /\ \E b \in FracOperands :
          \E r \in {FractionSub(last_call.result, b)} :
             Operated("sub", <<last_call.result, b>>, r)

FractionMulCall ==
    /\ HasFraction
    /\ \E b \in FracOperands :
          \E r \in {FractionMul(last_call.result, b)} :
             Operated("mul", <<last_call.result, b>>, r)

FractionDivideCall ==
    /\ HasFraction
    /\ \E b \in FracOperands :
          \E r \in {FractionDiv(last_call.result, b)} :
             Operated("div", <<last_call.result, b>>, r)

FractionNegCall ==
    /\ HasFraction
    /\ \E r \in {FractionNeg(last_call.result)} : Operated("neg", <<last_call.result>>, r)

FractionAbsCall ==
    /\ HasFraction
    /\ \E r \in {FractionAbs(last_call.result)} : Operated("abs", <<last_call.result>>, r)

FractionInverseCall ==
    /\ HasFraction
    /\ \E r \in {FractionInverse(last_call.result)} :
          Operated("inverse", <<last_call.result>>, r)

NextFraction ==
    \/ FractionNewCall \/ FromBigIntsCall \/ FromF64Call \/ FromStringCall
    \/ FractionAddCall \/ FractionSubCall \/ FractionMulCall \/ FractionDivideCall
    \/ FractionNegCall \/ FractionAbsCall \/ FractionInverseCall

SpecFraction == InitFraction /\ [][NextFraction]_vars

\* C28: every Fraction a constructor (new, from_big_ints, from_f64,
\* from_string) or an operation (add, sub, mul, div, neg, abs, inverse) returns
\* has a positive denominator and is in lowest terms, and new and from_big_ints
\* return 0/1 for a denominator of zero.
C28_CanonicalForm ==
    /\ (last_call.op # "none" /\ last_call.ok) =>
          /\ last_call.result.den > 0
          /\ Gcd(Abs(last_call.result.num), last_call.result.den) = 1
    /\ (last_call.op = "new" /\ last_call.args[2] = 0) =>
          last_call.result = [num |-> 0, den |-> 1]
    /\ (last_call.op = "from_big_ints" /\ last_call.args[2] = BigInt(1, <<0>>)) =>
          last_call.result = [num |-> 0, den |-> 1]

\* a sum that had to be reduced: 1/6 + 1/6 = 1/3, on a fraction that was itself
\* reduced by its constructor
C28_Witness ==
    /\ last_call.op = "add"
    /\ last_call.args = <<[num |-> 1, den |-> 6], [num |-> 1, den |-> 6]>>
    /\ last_call.result = [num |-> 1, den |-> 3]

(***************************************************************************)
(* Value::pow of a rational base to a rational exponent.                    *)
(***************************************************************************)
\* numerators and denominators of the bases
MaxRootBase == 9

\* numerators and denominators of the exponents
MaxRootExp == 3

RootBases ==
    {ValueRational(n, d) : n \in (-MaxRootBase)..MaxRootBase, d \in 1..MaxRootBase}

RootExponents ==
    {ValueRational(p, q) : p \in (-MaxRootExp)..MaxRootExp, q \in 1..MaxRootExp}

InitRoots ==
    /\ InitObjects
    /\ \E base \in RootBases, exponent \in RootExponents :
          last_call = [op |-> "input", base |-> base, exponent |-> exponent]
    /\ nops = 0

\* base.pow(&exponent)
ValuePowCall ==
    /\ last_call.op = "input"
    /\ \E r \in {ValuePow(last_call.base, last_call.exponent)} :
          last_call' = [op |-> "pow", base |-> last_call.base,
                        exponent |-> last_call.exponent, result |-> r]
    /\ nops' = nops + 1
    /\ UNCHANGED <<GraphVars, EvalVars>>

NextRoots == ValuePowCall

SpecRoots == InitRoots /\ [][NextRoots]_vars

\* base = r^q for a rational r that is not negative
IsPerfectPower(base, q) ==
    \E n \in 0..MaxRootBase, d \in 1..MaxRootBase :
        rational_int_power(Ratio(n, d), q) = base

\* C30 as stated: Value 4 raised to 1/2 is exactly Rational 2, and Value 8
\* raised to 1/3 is exactly Rational 3.
C30_ExactRootsAsStated ==
    last_call.op = "pow" =>
        /\ (last_call.base = ValueRational(4, 1) /\ last_call.exponent = ValueRational(1, 2))
              => last_call.result = ValueRational(2, 1)
        /\ (last_call.base = ValueRational(8, 1) /\ last_call.exponent = ValueRational(1, 3))
              => last_call.result = ValueRational(3, 1)

\* C30: exact roots stay rational: Value 4 raised to 1/2 is exactly Rational
\* 2 and Value 8 raised to 1/3 is exactly Rational 2; more generally a base
\* that is the q-th power of a non-negative rational r, raised to 1/q, is
\* exactly Rational r.
C30_ExactRoots ==
    last_call.op = "pow" =>
        /\ (last_call.base = ValueRational(4, 1) /\ last_call.exponent = ValueRational(1, 2))
              => last_call.result = ValueRational(2, 1)
        /\ (last_call.base = ValueRational(8, 1) /\ last_call.exponent = ValueRational(1, 3))
              => last_call.result = ValueRational(2, 1)
        /\ \A q \in 2..MaxRootExp :
              (/\ last_call.exponent = ValueRational(1, q)
               /\ IsPerfectPower(last_call.base.frac, q))
              => /\ last_call.result.kind = "Rational"
                 /\ last_call.result.frac.num >= 0
                 /\ rational_int_power(last_call.result.frac, q) = last_call.base.frac

\* the cube root of 8 has been taken
C30_Witness ==
    /\ last_call.op = "pow"
    /\ last_call.base = ValueRational(8, 1)
    /\ last_call.exponent = ValueRational(1, 3)
    /\ last_call.result = ValueRational(2, 1)

(***************************************************************************)
(* evaluateNoteInternal on a note whose expressions read the note's own     *)
(* variables, evaluated again with and without a registration in between.   *)
(***************************************************************************)
\* calls made on the registered note
MaxSelfOps == 3

\* the order of the blocks of evaluate_note_internal
EvalOrder == <<Tempo, BeatsPerMeasure, Frequency, MeasureLength, StartTime, Duration>>

EvalPosition(var) == CHOOSE i \in DOMAIN EvalOrder : EvalOrder[i] = var

\* one variable given by a constant and another one reading it; one variable
\* defined as itself plus one; a chain of three
SelfRefProfiles(id) ==
    {With(With(NoExprs, v, ConstExpr(c, 1)), w, NoteRefExpr(id, v)) :
        v \in Vars, w \in Vars, c \in {7, 90}}
    \cup {With(NoExprs, v, RefPlusOne(id, v)) : v \in Vars}
    \cup {With(With(With(NoExprs, Tempo, ConstExpr(90, 1)),
                    MeasureLength, NoteRefExpr(id, Tempo)),
               Duration, NoteRefExpr(id, MeasureLength)),
          With(With(NoExprs, MeasureLength, BadExpr), StartTime, NoteRefExpr(id, MeasureLength))}

InitSelfRef ==
    /\ dependencies = EmptyMap /\ dependents = EmptyMap /\ base_note_dependents = {}
    /\ \E id \in EvalIds :
          \E pe \in {register_note(new_evaluator, id, p) : p \in SelfRefProfiles(id)} :
              /\ cache = pe.cache
              /\ bytecode_store = pe.bytecode_store
              /\ dirty = pe.dirty
              /\ generation = pe.generation
              /\ last_call = [op |-> "registerNote", note_id |-> id]
    /\ nops = 0

\* evaluateNoteInternal(id) on the registered note
SelfEvaluate ==
    /\ nops < MaxSelfOps
    /\ \E r \in {evaluate_note_internal(TheEvaluator, last_call.note_id)} :
          /\ SetEvaluator(r.pe)
          /\ last_call' = [op |-> "evaluateNoteInternal", note_id |-> last_call.note_id]
    /\ nops' = nops + 1
    /\ UNCHANGED GraphVars

\* registerExpression(id, var, ..): a variable gets another constant
SelfReRegister ==
    /\ nops < MaxSelfOps
    /\ last_call.op = "evaluateNoteInternal"
    /\ \E var \in {Tempo, MeasureLength} :
          \E pe \in {register_expression(TheEvaluator, last_call.note_id, var,
                                         ConstExpr(11, 1).bytecode, ConstExpr(11, 1).length)} :
              /\ SetEvaluator(pe)
              /\ last_call' = [op |-> "registerExpression", note_id |-> last_call.note_id,
                               var_index |-> var]
    /\ nops' = nops + 1
    /\ UNCHANGED GraphVars

NextSelfRef == SelfEvaluate \/ SelfReRegister

SpecSelfRef == InitSelfRef /\ [][NextSelfRef]_vars

\* the expression registered for var is one constant
IsConstant(id, var) ==
    /\ bytecode_store[id][var].some
    /\ \E c \in {7, 11, 90} : bytecode_store[id][var].v = ConstExpr(c, 1)

\* the expression registered for w is `LOAD_REF id v` and v, a constant, is
\* evaluated before w
ReadsEarlier(id, w, v) ==
    /\ bytecode_store[id][w] = Some(NoteRefExpr(id, v))
    /\ IsConstant(id, v)
    /\ EvalPosition(v) < EvalPosition(w)

NoteBlock(st, expressions, var, eval_cache) ==
    IF ~expressions[var].some THEN st
    ELSE CHOOSE out \in
            {IF r.tag # "Ok" THEN st
             ELSE [result |-> set_var(st.result, var, from_value(r.value)),
                   flags |-> IF is_corrupted(r.value)
                                THEN FlagOr(st.flags, corruption_flag_for_var(var))
                                ELSE st.flags] :
                r \in {evaluate(expressions[var].v.bytecode, expressions[var].v.length,
                                eval_cache)}} : TRUE

\* step 3 of evaluate_note: startTime and duration on the working cache
NoteStage3(expressions, s4, working_cache) ==
    CHOOSE out \in
        {[s6.result EXCEPT !.corruption_flags = s6.flags] :
            s6 \in {NoteBlock(s5, expressions, Duration, working_cache) :
            s5 \in {NoteBlock(s4, expressions, StartTime, working_cache)}}} : TRUE

\* step 2: measureLength on the working cache, then
\* `working_cache.insert(0, result.clone())` again
NoteStage2(expressions, s3, working_cache) ==
    CHOOSE out \in
        {NoteStage3(expressions, s4, MapInsert(working_cache, 0, s4.result)) :
            s4 \in {NoteBlock(s3, expressions, MeasureLength, working_cache)}} : TRUE

\* Evaluator::evaluate_note: the EvaluatedNote returned.  Step 1 runs on the
\* caller's cache; the working cache is the caller's cache after
\* `working_cache.insert(0, result.clone())`
evaluate_note(expressions, eval_cache) ==
    LET s0 == [result |-> DefaultNote, flags |-> 0]
    IN  CHOOSE out \in
          {NoteStage2(expressions, s3, MapInsert(eval_cache, 0, s3.result)) :
            s3 \in {NoteBlock(s2, expressions, Frequency, eval_cache) :
            s2 \in {NoteBlock(s1, expressions, BeatsPerMeasure, eval_cache) :
            s1 \in {NoteBlock(s0, expressions, Tempo, eval_cache)}}}} : TRUE

\* the base note of the caller's cache: absent, complete, partial
BaseCaches == {EmptyMap, (0 :> FullNote(100)), (0 :> PartialNote(9))}

\* a variable that reads a variable of the base note, alone or next to a
\* constant of the note's own
BaseReadProfiles ==
    {With(NoExprs, w, BaseRefExpr(v)) : v \in Vars, w \in Vars}
    \cup {With(With(NoExprs, v, ConstExpr(7, 1)), w, BaseRefExpr(v)) :
             v \in Vars, w \in Vars}

\* note 1 is registered in the persistent evaluator; the same expressions are
\* the NoteExpressions handed to the stateless evaluator
InitNote ==
    /\ dependencies = EmptyMap /\ dependents = EmptyMap /\ base_note_dependents = {}
    /\ \E base \in BaseCaches, p \in BaseReadProfiles :
          \E pe \in {register_note([new_evaluator EXCEPT !.cache = base], 1, p)} :
              /\ cache = pe.cache
              /\ bytecode_store = pe.bytecode_store
              /\ dirty = pe.dirty
              /\ generation = pe.generation
    /\ last_call = [op |-> "input"]
    /\ nops = 0

\* Evaluator::evaluate_note(&expressions, &eval_cache): nothing is stored
EvaluateNote ==
    /\ last_call.op = "input"
    /\ \E r \in {evaluate_note(bytecode_store[1], cache)} :
          last_call' = [op |-> "evaluateNote", result |-> r]
    /\ nops' = nops + 1
    /\ UNCHANGED <<GraphVars, EvalVars>>

\* PersistentEvaluator::evaluate_note_internal(1)
EvaluateRegisteredNote ==
    /\ last_call.op = "input"
    /\ \E r \in {evaluate_note_internal(TheEvaluator, 1)} :
          /\ SetEvaluator(r.pe)
          /\ last_call' = [op |-> "evaluateNoteInternal", result |-> r.pe.cache[1]]
    /\ nops' = nops + 1
    /\ UNCHANGED GraphVars

NextNote == EvaluateNote \/ EvaluateRegisteredNote

SpecNote == InitNote /\ [][NextNote]_vars

\* C32: in the stateless evaluate_note as in the persistent evaluator, a
\* variable of a note other than the base note whose expression is
\* LOAD_BASE v gets the variable v of the base note (id 0) of the caller's
\* cache, or the default of v when the base note has none, whichever of the
\* six variables the expression belongs to.
C32_LoadBaseReadsBaseNote ==
    last_call.op # "input" =>
        \A w \in Vars, v \in Vars :
            bytecode_store[1][w] = Some(BaseRefExpr(v))
               => get_var(last_call.result, w) = Some(from_value(LoadBaseValue(cache, v)))

(***************************************************************************)
(* The lookup opcodes and the end of an evaluation, one loop iteration at a *)
(* time, on stacks that hold different values.                              *)
(***************************************************************************)
\* what is on the stack when the opcode under test runs: nothing, a
\* constant, a cached variable of note 1, an irrational, two values
FindHeads ==
    {<<>>,
     ConstExpr(5, 1).bytecode,
     ConstExpr(0, 1).bytecode,
     ConstExpr(-1, 2).bytecode,
     NoteRefExpr(1, Tempo).bytecode,
     Sqrt2Expr.bytecode,
     ConstExpr(3, 1).bytecode \o ConstExpr(5, 1).bytecode}

FindOps == {FindTempo, FindMeasure, FindInstrument}

\* programs that end on zero, one, two and three values, or in an error
FindPrograms ==
    {h \o <<op>> : h \in FindHeads, op \in FindOps}
    \cup {h \o <<op1, op2>> : h \in FindHeads, op1 \in FindOps, op2 \in FindOps}
    \cup FindHeads
    \cup {ConstExpr(1, 1).bytecode \o ConstExpr(2, 1).bytecode \o ConstExpr(3, 1).bytecode,
          ConstExpr(1, 1).bytecode \o <<Dup>>,
          ConstExpr(1, 1).bytecode \o <<Neg>>,
          <<255>>}

FindCaches ==
    {EmptyMap,
     (0 :> FullNote(100)),
     (0 :> PartialNote(9)),
     (0 :> DefaultNote) @@ (1 :> FullNote(200)),
     (0 :> FullNote(100)) @@ (1 :> FullNote(200))}

\* the length handed over is the buffer's, or zero
InitFind ==
    /\ dependencies = EmptyMap /\ dependents = EmptyMap /\ base_note_dependents = {}
    /\ bytecode_store = EmptyMap /\ dirty = {} /\ generation = 0
    /\ cache \in FindCaches
    /\ \E b \in FindPrograms :
          \E length \in {0, Len(b)} :
             last_call = [op |-> "input", bytecode |-> b, length |-> length]
    /\ nops = 0

NextFind == StackBegin \/ StackStep \/ StackReturn

SpecFind == InitFind /\ [][NextFind]_vars

\* the base note's cached tempo, or 60
BaseTempoOr60 ==
    IF 0 \in DOMAIN cache /\ cache[0].tempo.some
    THEN to_value(cache[0].tempo.v)
    ELSE Rational([num |-> 60, den |-> 1])

\* C33: FIND_TEMPO and FIND_INSTRUMENT each pop exactly one value and push
\* exactly one, and end the evaluation with the underflow error on an empty
\* stack; FIND_TEMPO pushes the base note's cached tempo, or 60 when there is
\* none, whatever value it popped; FIND_INSTRUMENT pushes rational 0.
C33_FindTempoAndInstrument ==
    [][(StackAtOp /\ StackOp \in {FindTempo, FindInstrument}) =>
          IF last_call.stack = <<>>
          THEN StackResultIs("underflow")
          ELSE /\ last_call'.op = "run"
               /\ last_call'.pc = last_call.pc + 1
               /\ Len(last_call'.stack) = Len(last_call.stack)
               /\ \A i \in 1..(Len(last_call.stack) - 1) :
                     last_call'.stack[i] = last_call.stack[i]
               /\ last_call'.stack[Len(last_call.stack)] =
                     IF StackOp = FindTempo
                     THEN BaseTempoOr60
                     ELSE Rational([num |-> 0, den |-> 1])]_vars

\* FIND_TEMPO has popped the constant 5 and pushed the base note's tempo 103
C33_Witness ==
    /\ last_call.op = "run"
    /\ last_call.bytecode = ConstExpr(5, 1).bytecode \o <<FindTempo>>
    /\ last_call.pc = last_call.length
    /\ last_call.length > 0
    /\ last_call.stack = <<Rational([num |-> 103, den |-> 1])>>

\* C34: an evaluation that reaches the end of the bytecode returns Ok with
\* the value on top of the stack, and Ok(0) when the stack is empty, however
\* many values the stack holds; a length of zero returns Ok(0) at once.
C34_TerminalStack ==
    [][/\ (last_call.op = "input" /\ last_call.length = 0) =>
             /\ last_call'.op = "evaluate_with_cache"
             /\ last_call'.result.tag = "Ok"
             /\ last_call'.result.value = Rational([num |-> 0, den |-> 1])
       /\ (last_call.op = "run" /\ last_call.pc >= last_call.length) =>
             /\ last_call'.op = "evaluate_with_cache"
             /\ last_call'.result.tag = "Ok"
             /\ last_call'.result.value =
                   IF last_call.stack = <<>>
                   THEN Rational([num |-> 0, den |-> 1])
                   ELSE last_call.stack[Len(last_call.stack)]]_vars

\* an evaluation that ended on the three values 1, 2, 3 returned 3
C34_Witness ==
    /\ last_call.op = "evaluate_with_cache"
    /\ last_call.bytecode = ConstExpr(1, 1).bytecode \o ConstExpr(2, 1).bytecode
                            \o ConstExpr(3, 1).bytecode
    /\ last_call.length > 0
    /\ last_call.result.tag = "Ok"
    /\ last_call.result.value = Rational([num |-> 3, den |-> 1])

(***************************************************************************)
(* The evaluation order of notes that read the base note.  A note whose    *)
(* expressions hold LOAD_BASE is registered with references_base = true    *)
(* and without an edge to note 0 (compiler.rs emit_base_ref records the    *)
(* flag, not a dependency).                                                *)
(***************************************************************************)
\* syncFromJs of every note with its dependencies; the notes of B are
\* registered with references_base = true
BaseEdgeNotes(E, B) ==
    [i \in 1..Cardinality(NoteIds) |->
        [id |-> i - 1, deps |-> {e[2] : e \in {x \in E : x[1] = i - 1}},
         references_base |-> (i - 1) \in B]]

InitBaseOrder ==
    /\ \E E \in {X \in EdgeSets : Cardinality(X) <= MaxOrderEdges} :
          \E B \in SUBSET (NoteIds \ {0}) :
              \E g \in {sync_from_js(BaseEdgeNotes(E, B))} :
                  /\ dependencies = g.dependencies
                  /\ dependents = g.dependents
                  /\ base_note_dependents = g.base_note_dependents
    /\ cache = EmptyMap /\ bytecode_store = EmptyMap /\ dirty = {} /\ generation = 0
    /\ last_call = [op |-> "new"]
    /\ nops = 0

\* getEvaluationOrder(note_ids) on a graph with base-note readers
GetBaseEvaluationOrder ==
    /\ last_call.op = "new"
    /\ \E S \in AskedSets, map_iter \in IterationOrders, set_iter \in IterationOrders :
          last_call' = [op |-> "getEvaluationOrder", note_ids |-> S,
                        order |-> get_evaluation_order_in(TheGraph, S, map_iter, set_iter)]
    /\ nops' = nops + 1
    /\ UNCHANGED <<GraphVars, EvalVars>>

NextBaseOrder == GetBaseEvaluationOrder

SpecBaseOrder == InitBaseOrder /\ [][NextBaseOrder]_vars

\* C36: when note 0 is in the set passed to getEvaluationOrder, every member
\* of the set that was registered with references_base = true and is in the
\* returned order comes after note 0 in it.
C36_BaseNoteFirst ==
    (last_call.op = "getEvaluationOrder" /\ 0 \in last_call.note_ids) =>
        \A j \in 1..Len(last_call.order) :
            last_call.order[j] \in base_note_dependents
                => \E i \in 1..(j - 1) : last_call.order[i] = 0

(***************************************************************************)
(* evaluateDirty and the dirty set: notes that are dirty when the call     *)
(* begins and are not evaluated by it, because the list leaves them out or *)
(* because they have no bytecode.                                          *)
(***************************************************************************)
\* the projects the call starts from: the base note alone or with note 1,
\* as registered or after evaluateDirty([0, 1])
SweepProjects ==
    {register_note(new_evaluator, 0, b) : b \in BaseProfiles}
    \cup {Registered(b, With(NoExprs, StartTime, ConstExpr(2, 1))) : b \in BaseProfiles}
    \cup {evaluate_dirty(Registered(b, With(NoExprs, Duration, BaseRefExpr(Tempo))), <<0, 1>>).pe :
             b \in BaseProfiles}

\* id lists handed to evaluateDirty
SweepLists == {<<>>, <<0>>, <<1>>, <<0, 1>>, <<MaxEvalId + 1>>, <<1, MaxEvalId + 1>>}

\* a project on which markDirtyBatch has marked any ids, unregistered ones too
InitSweep ==
    /\ dependencies = EmptyMap /\ dependents = EmptyMap /\ base_note_dependents = {}
    /\ \E p \in SweepProjects, marked \in SweepLists :
          \E pe \in {mark_dirty_batch(p, marked)} :
              /\ cache = pe.cache
              /\ bytecode_store = pe.bytecode_store
              /\ dirty = pe.dirty
              /\ generation = pe.generation
    /\ last_call = [op |-> "new"]
    /\ nops = 0

\* evaluateDirty(sorted_ids)
SweepEvaluateDirty ==
    /\ last_call.op = "new"
    /\ \E ids \in SweepLists :
          \E r \in {evaluate_dirty(TheEvaluator, ids)} :
              /\ SetEvaluator(r.pe)
              /\ last_call' = [op |-> "evaluateDirty", sorted_ids |-> ids,
                               dirty_before |-> dirty, cache_before |-> cache]
    /\ nops' = nops + 1
    /\ UNCHANGED GraphVars

NextSweep == SweepEvaluateDirty

SpecSweep == InitSweep /\ [][NextSweep]_vars

\* the notes that were dirty when evaluateDirty began and that it did not
\* evaluate: they are not listed, or they have no bytecode
NotEvaluated ==
    {id \in last_call.dirty_before :
        \/ \A i \in DOMAIN last_call.sorted_ids : last_call.sorted_ids[i] # id
        \/ id \notin DOMAIN bytecode_store}

\* C38 as stated: a note that is dirty before evaluateDirty(ids) and is absent
\* from ids, or has no registered bytecode, is still dirty afterwards.
C38_UnevaluatedStaysDirty ==
    last_call.op = "evaluateDirty" => \A id \in NotEvaluated : id \in dirty

\* C38: evaluateDirty takes every note out of the dirty set, the notes it did
\* not evaluate included: a note that is dirty before evaluateDirty(ids) and
\* is absent from ids, or has no registered bytecode, is not dirty afterwards,
\* and the cache holds for it what it held before the call.
C38_UnevaluatedIsCleared ==
    last_call.op = "evaluateDirty" =>
        \A id \in NotEvaluated :
            /\ id \notin dirty
            /\ (id \in DOMAIN cache) = (id \in DOMAIN last_call.cache_before)
            /\ id \in DOMAIN cache => cache[id] = last_call.cache_before[id]

\* note 1 was registered and dirty, never evaluated, and evaluateDirty([0])
\* left it out: it is clean and has no cached value
C38_Witness ==
    /\ last_call.op = "evaluateDirty"
    /\ last_call.sorted_ids = <<0>>
    /\ last_call.dirty_before = {0, 1}
    /\ 1 \in DOMAIN bytecode_store
    /\ 1 \notin DOMAIN cache
    /\ 0 \in DOMAIN cache
    /\ dirty = {}

(***************************************************************************)
(* registerNote on a note whose slots were filled by earlier registerNote  *)
(* and registerExpression calls.                                           *)
(***************************************************************************)
\* the evaluators the call starts from: a fresh one, a two-note project, and
\* a two-note project with the tempo slot of note 1 set by registerExpression
RegisterProjects ==
    {new_evaluator}
    \cup {Registered(b, n) : b \in BaseProfiles, n \in NoteProfiles}
    \cup {register_expression(Registered(b, n), 1, Tempo,
                              ConstExpr(90, 1).bytecode, ConstExpr(90, 1).length) :
             b \in BaseProfiles, n \in NoteProfiles}

InitRegister ==
    /\ dependencies = EmptyMap /\ dependents = EmptyMap /\ base_note_dependents = {}
    /\ \E pe \in RegisterProjects :
          /\ cache = pe.cache
          /\ bytecode_store = pe.bytecode_store
          /\ dirty = pe.dirty
          /\ generation = pe.generation
    /\ last_call = [op |-> "new"]
    /\ nops = 0

\* registerNote(note_id, expressions)
RegisterNoteAgain ==
    /\ last_call.op = "new"
    /\ \E id \in EvalIds, exprs \in RegisterNoteInputs :
          /\ SetEvaluator(register_note(TheEvaluator, id, exprs))
          /\ last_call' = [op |-> "registerNote", note_id |-> id, expressions |-> exprs]
    /\ nops' = nops + 1
    /\ UNCHANGED GraphVars

NextRegister == RegisterNoteAgain

SpecRegister == InitRegister /\ [][NextRegister]_vars

\* C39: after registerNote(id, exprs) each of the six slots of id holds the
\* bytecode exprs gives for that variable and is empty when exprs gives
\* none, whatever the slot held before.
C39_RegisterNoteReplaces ==
    last_call.op = "registerNote" =>
        /\ last_call.note_id \in DOMAIN bytecode_store
        /\ \A v \in Vars : bytecode_store[last_call.note_id][v] = last_call.expressions[v]

(***************************************************************************)
(* hasDependencyPath against the transitive queries, on graphs with        *)
(* self-loops and cycles, for ids the graph holds and one it never saw.    *)
(***************************************************************************)
\* the ids asked about
PathIds == 0..(MaxNoteId + 1)

InitPath ==
    /\ \E E \in EdgeSets : \E g \in {sync_from_js(EdgeNotes(E))} :
          /\ dependencies = g.dependencies
          /\ dependents = g.dependents
          /\ base_note_dependents = g.base_note_dependents
    /\ cache = EmptyMap /\ bytecode_store = EmptyMap /\ dirty = {} /\ generation = 0
    /\ last_call = [op |-> "new"]
    /\ nops = 0

\* hasDependencyPath(source, target)
HasDependencyPath ==
    /\ last_call.op = "new"
    /\ \E a \in PathIds, b \in PathIds, set_iter \in IterationOrders :
          last_call' = [op |-> "hasDependencyPath", source |-> a, target |-> b,
                        result |-> has_dependency_path(TheGraph, a, b, set_iter)]
    /\ nops' = nops + 1
    /\ UNCHANGED <<GraphVars, EvalVars>>

NextPath == HasDependencyPath

SpecPath == InitPath /\ [][NextPath]_vars

\* C40: for distinct ids a and b, hasDependencyPath(a, b) is true exactly
\* when b is in getAllDependencies(a), and exactly when a is in
\* getAllDependents(b); hasDependencyPath(a, a) is true exactly when a lies
\* on a dependency cycle.
C40_PathAgreesWithClosures ==
    last_call.op = "hasDependencyPath" =>
        IF last_call.source # last_call.target
        THEN /\ last_call.result
                   <=> last_call.target \in get_all_dependencies(TheGraph, last_call.source)
             /\ last_call.result
                   <=> last_call.source \in get_all_dependents(TheGraph, last_call.target)
        ELSE last_call.result <=> last_call.source \in OnCycleIn(NoteIds)

\* note 0 reaches itself over the cycle 0 -> 1 -> 2 -> 0
C40_Witness ==
    /\ last_call.op = "hasDependencyPath"
    /\ dependencies = (0 :> {1}) @@ (1 :> {2}) @@ (2 :> {0})
    /\ last_call.source = 0
    /\ last_call.target = 0
    /\ last_call.result

(***************************************************************************)
(* The host protocol over both objects: every expression of a note is       *)
(* compiled; the note's bytecode is registered with the evaluator and its   *)
(* collected dependencies with the graph; the notes the graph reports are   *)
(* evaluated in the order the graph gives.                                  *)
(***************************************************************************)
\* largest note id of a project; note 0 is the base note
MaxHostId == 1

HostIds == 0..MaxHostId

\* host calls made on a loaded project
MaxEdits == 1

\* a note of the host: one optional CompiledExpression per variable
HostBaseNotes ==
    {With(NoExprs, Tempo, emit_constant(new_compiler, 120, 1)),
     With(With(NoExprs, Tempo, emit_constant(new_compiler, 90, 1)),
          BeatsPerMeasure, emit_constant(new_compiler, 3, 1)),
     With(With(With(NoExprs, Tempo, emit_constant(new_compiler, 120, 1)),
               StartTime, emit_constant(new_compiler, 0, 1)),
          Frequency, emit_constant(new_compiler, 440, 1))}

HostNotes ==
    {With(NoExprs, StartTime, emit_constant(new_compiler, 0, 1)),
     With(NoExprs, StartTime, emit_base_ref(new_compiler, Tempo)),
     With(With(With(NoExprs, StartTime, emit_note_ref(new_compiler, 0, Tempo)),
               Duration, emit_constant(new_compiler, 1, 1)),
          Frequency, emit_constant(new_compiler, 440, 1)),
     With(With(With(NoExprs, StartTime, emit_constant(new_compiler, 1, 1)),
               Duration, emit_constant(new_compiler, 1, 1)),
          Frequency, emit_note_ref(new_compiler, 0, Frequency))}

\* the (bytecode, length) pairs handed to registerNote
ExprsOf(note) ==
    [v \in Vars |-> IF note[v].some
                       THEN Some(Expr(note[v].v.bytecode, Len(note[v].v.bytecode)))
                       ELSE None]

\* the dependencies and the references_base flag handed to addNote
DepsOf(note) == UNION {note[v].v.dependencies : v \in {w \in Vars : note[w].some}}

ReferencesBaseOf(note) == \E v \in Vars : note[v].some /\ note[v].v.references_base

\* registerNote and addNote for notes k .. MaxHostId of project p
RECURSIVE LoadNotes(_, _, _, _)
LoadNotes(pe, g, p, k) ==
    IF k > MaxHostId THEN [pe |-> pe, g |-> g]
    ELSE LoadNotes(register_note(pe, k, ExprsOf(p[k])),
                   update_dependencies(g, k, DepsOf(p[k]), ReferencesBaseOf(p[k])),
                   p, k + 1)

Projects == {p \in [HostIds -> HostBaseNotes \cup HostNotes] :
                /\ p[0] \in HostBaseNotes
                /\ \A k \in HostIds \ {0} : p[k] \in HostNotes}

\* the notes in ascending id order
AscendingIds == [i \in 1..(MaxHostId + 1) |-> i - 1]

\* a loaded project, before its first evaluation or after all notes were
\* evaluated base note first
InitHost ==
    /\ \E p \in Projects, evaluated \in BOOLEAN :
          \E st \in {LoadNotes(new_evaluator, new_graph, p, 0)} :
             \E pe \in {IF evaluated THEN evaluate_dirty(st.pe, AscendingIds).pe ELSE st.pe} :
                /\ dependencies = st.g.dependencies
                /\ dependents = st.g.dependents
                /\ base_note_dependents = st.g.base_note_dependents
                /\ cache = pe.cache
                /\ bytecode_store = pe.bytecode_store
                /\ dirty = pe.dirty
                /\ generation = pe.generation
    /\ last_call = [op |-> "load"]
    /\ nops = 0

\* every registered note is cached and none is dirty
AllEvaluated == DOMAIN cache = DOMAIN bytecode_store /\ dirty = {}

\* the user edits note n: registerNote, addNote, then
\* evaluateDirty(getEvaluationOrder({n} \cup getAllDependents(n)))
HostEdit ==
    /\ nops < MaxEdits
    /\ \E n \in HostIds, note \in HostBaseNotes \cup HostNotes :
          /\ (n = 0) = (note \in HostBaseNotes)
          /\ \E pe1 \in {register_note(TheEvaluator, n, ExprsOf(note))},
                g1 \in {update_dependencies(TheGraph, n, DepsOf(note), ReferencesBaseOf(note))} :
                \E ids \in {get_evaluation_order(g1, {n} \cup get_all_dependents(g1, n))} :
                   \E r \in {evaluate_dirty(pe1, ids)} :
                      /\ SetEvaluator(r.pe)
                      /\ SetGraph(g1)
                      /\ last_call' = [op |-> "edit", note_id |-> n, sorted_ids |-> ids,
                                       from_evaluated |-> AllEvaluated]
    /\ nops' = nops + 1

\* evaluateDirty(getEvaluationOrder(dirty \cup transitiveDependents(dirty)))
HostEvaluateDirty ==
    /\ nops < MaxEdits
    /\ \E ids \in {get_evaluation_order(TheGraph,
                      dirty \cup UNION {get_all_dependents(TheGraph, d) : d \in dirty})} :
          \E r \in {evaluate_dirty(TheEvaluator, ids)} :
             /\ SetEvaluator(r.pe)
             /\ last_call' = [op |-> "evaluateDirty", sorted_ids |-> ids]
    /\ nops' = nops + 1
    /\ UNCHANGED GraphVars

NextHost == HostEdit \/ HostEvaluateDirty

SpecHost == InitHost /\ [][NextHost]_vars

\* the orders of all registered notes in which every note comes after the
\* notes the graph says it depends on
GraphOrders ==
    LET S == DOMAIN bytecode_store
    IN  {o \in [1..Cardinality(S) -> S] :
            IsPermutationOf(o, S) /\ AfterItsDependencies(o, S)}

\* the cache after clearing it and evaluating all registered notes in order o
FullEvaluation(o) ==
    evaluate_dirty(Evaluator(EmptyMap, bytecode_store, dirty, generation), o).pe.cache

\* C3: from a cache in which every registered note was evaluated, after one
\* note is re-registered, its graph dependencies updated and
\* evaluateDirty(getEvaluationOrder({n} \cup getAllDependents(n))) called, the
\* cache equals the one obtained by clearing it and evaluating all registered
\* notes in some order that respects the (acyclic) graph.
C3_IncrementalEqualsFull ==
    (last_call.op = "edit" /\ last_call.from_evaluated
        /\ InducedAcyclic(DOMAIN bytecode_store)) =>
        \E o \in GraphOrders : cache = FullEvaluation(o)

\* the id list respects the graph: every listed note comes after every
\* listed note it depends on
C4_Sorted(ids) ==
    \A i, j \in 1..Len(ids) : ids[j] \in MapGet(dependencies, ids[i]) => j < i

\* C4: when evaluateDirty(sortedIds) returns and sortedIds lists every note
\* after the notes it depends on, each cached variable of a listed note equals
\* the value of its bytecode evaluated against the final cache.
C4_AsIfAfterDependencies ==
    (last_call.op \in {"edit", "evaluateDirty"} /\ C4_Sorted(last_call.sorted_ids)) =>
        \A i \in 1..Len(last_call.sorted_ids) :
            LET id == last_call.sorted_ids[i]
            IN  id \in DOMAIN bytecode_store =>
                   \A v \in Vars :
                      LET slot == bytecode_store[id][v]
                      IN  slot.some =>
                             \A r \in {evaluate_with_cache(slot.v.bytecode, slot.v.length, cache)} :
                                (r.tag = "Ok" /\ get_var(cache[id], v).some) =>
                                    get_var(cache[id], v).v = from_value(r.value)

====
